---- MODULE Spec2Model ----
(***************************************************************************)
(* A model of nebari's append-only tree file (tree/mod.rs) and of the      *)
(* multi-tree transaction coordinator (roots.rs).                          *)
(*                                                                         *)
(* A tree file is modelled byte-accurately as far as root discovery can    *)
(* tell: its length, the length up to which it has been synchronized, and  *)
(* the root headers it holds (offset of the magic, payload length of the   *)
(* root chunk, header kind, transaction id, contents).  Every other byte   *)
(* (file magic "Nbri", value and node chunks, padding) is a byte that does *)
(* not read as "Nbr" followed by a header kind.                            *)
(***************************************************************************)
EXTENDS Integers, Sequences, FiniteSets, TLC

\* ------------------------------------------------------------------ constants

PAGE_SIZE == 256
PAGE_HEADER_LEN == 4
CHUNK_HEADER_LEN == 8
VersionedHeader == 2
UnversionedHeader == 3
HeaderKinds == {VersionedHeader, UnversionedHeader}

\* Option::None of a value, of a file id.
NoValue == "none"
NoFile == 0

\* ------------------------------------------------------------------ bounds

MaxWrites == 2        \* write operations on the tree file of FileSpec
MaxTx == 2            \* transaction ids handed out
MaxCompactions == 1   \* compactions
Keys == {"k"}
Vals == {"v1", "v2"}
TxIds == 1..MaxTx
\* transaction ids given to the modifications of FileSpec
FileTxIds == {1, 2}
\* payload lengths of a serialized root: within a page, ending exactly on a page
\* boundary, ending 2 bytes past one, spanning two pages
RootLens == {20, 244, 246, 300}
\* bytes of value and node chunks a modification appends
DataLens == {40, 230}

\* ------------------------------------------------------------------ data

EmptyData == [k \in Keys |-> NoValue]

DefaultRoot == [init |-> FALSE, txn |-> 0, data |-> EmptyData, dirty |-> FALSE]

DefaultActive == [file_id |-> NoFile, position |-> 0, root |-> DefaultRoot]

\* State::default(): nothing published, nothing initialized.
FreshState == [published |-> DefaultActive, active |-> DefaultActive]

EmptyFile(id) == [id |-> id, len |-> 0, synced |-> 0, roots |-> << >>]

RootEnd(r) == r.at + PAGE_HEADER_LEN + CHUNK_HEADER_LEN + r.clen

\* The file cut to its first T bytes: a root whose page header is not wholly
\* before T is gone, one whose chunk ends behind T is left torn.
Truncated(f, T) ==
    LET keep == {i \in 1..Len(f.roots) : f.roots[i].at + PAGE_HEADER_LEN <= T}
    IN [f EXCEPT !.len = T,
                 !.synced = IF @ < T THEN @ ELSE T,
                 !.roots = [i \in 1..Cardinality(keep) |->
                               [f.roots[i] EXCEPT !.torn = @ \/ RootEnd(f.roots[i]) > T]]]

SetMax(S) == CHOOSE x \in S : \A y \in S : y <= x

\* ------------------------------------------------------------------ tree state

\* Root::initialize_default
initialize_default(a) == [a EXCEPT !.root.init = TRUE]

\* ActiveState::publish: the published state becomes a copy of the active one.
publish(st) == [st EXCEPT !.published = st.active]

\* ActiveState::rollback: the active root is reset to the published root; the
\* pages appended meanwhile stay in the file, so the position is kept.
rollback(st) == [st EXCEPT !.active.root = st.published.root]

\* ------------------------------------------------------------------ paged writer

\* PagedWriter::new with a header: pad to the next page boundary (a whole page
\* when the position is already aligned); the result is the offset of "Nbr".
HeaderOffset(position) == position + (PAGE_SIZE - (position % PAGE_SIZE))

\* PagedWriter::new without a header, then dlen bytes of chunks, then finish():
\* a writer that starts at 0 first writes the 4 bytes "Nbri".
DataBlockEnd(position, dlen) ==
    (IF position = 0 THEN PAGE_HEADER_LEN ELSE position) + dlen

\* save_tree: the serialized root is appended as a chunk behind a page-aligned
\* header; the position moves behind it; the file is synchronized on request.
save_tree(f, a, hdr, afterData, clen, synchronize) ==
    LET at  == HeaderOffset(afterData)
        end == at + PAGE_HEADER_LEN + CHUNK_HEADER_LEN + clen
        rec == [at |-> at, clen |-> clen, hdr |-> hdr,
                txn |-> a.root.txn, data |-> a.root.data, torn |-> FALSE]
    IN [file   |-> [f EXCEPT !.len = end,
                             !.roots = Append(@, rec),
                             !.synced = IF synchronize THEN end ELSE @],
        active |-> [a EXCEPT !.position = end, !.root.dirty = FALSE]]

\* ------------------------------------------------------------------ root discovery

\* The 4 bytes read at a page offset: a header kind when they are "Nbr" and a
\* valid kind, 0 otherwise.
ReadPageHeader(f, p) ==
    LET here == {i \in 1..Len(f.roots) :
                    f.roots[i].at = p /\ p + PAGE_HEADER_LEN <= f.len}
    IN IF here = {} THEN 0 ELSE f.roots[SetMax(here)].hdr

RootAt(f, p) ==
    f.roots[SetMax({i \in 1..Len(f.roots) : f.roots[i].at = p})]

\* read_chunk: both read_exact calls need the bytes to be there, and the
\* payload has to match the CRC of the chunk header.
read_chunk(f, r) ==
    IF RootEnd(r) > f.len THEN "IoError"
    ELSE IF r.torn THEN "DataIntegrity"
    ELSE "Ok"

\* A faulty InitialBlockStart: no step back when fewer than 4 bytes follow
\* the last page boundary.
InitialBlockStartNoStepBack(file_length) ==
    file_length - (file_length % PAGE_SIZE)

\* initialize_state, lines 237-242.
InitialBlockStart(file_length) ==
    LET block_start == file_length - (file_length % PAGE_SIZE)
    IN IF file_length - block_start < PAGE_HEADER_LEN
       THEN block_start - PAGE_SIZE
       ELSE block_start

\* A faulty HeaderMatches: any root header is taken for this tree type's.
HeaderMatchesAny(kind, hdr) == TRUE

\* header != Root::HEADER, negated.
HeaderMatches(kind, hdr) == kind = hdr

\* The loop of initialize_state from block_start downwards.  probes counts the
\* page headers read.
RECURSIVE Discover(_, _, _, _, _, _)
Discover(f, block_start, hdr, useLog, log, probes) ==
    IF block_start + PAGE_HEADER_LEN > f.len
    THEN [status |-> "IoError", at |-> block_start, probes |-> probes,
          root |-> DefaultRoot]
    ELSE
    LET kind == ReadPageHeader(f, block_start) IN
    IF kind \in HeaderKinds
    THEN IF ~HeaderMatches(kind, hdr)
         THEN [status |-> "DataIntegrity", at |-> block_start, probes |-> probes,
               root |-> DefaultRoot]
         ELSE LET r == RootAt(f, block_start) IN
              IF read_chunk(f, r) # "Ok"
              THEN [status |-> read_chunk(f, r), at |-> block_start, probes |-> probes,
                    root |-> DefaultRoot]
              ELSE IF useLog /\ r.txn # 0 /\ r.txn \notin log
                   THEN IF block_start = 0
                        THEN [status |-> "Unpublished", at |-> block_start,
                              probes |-> probes, root |-> DefaultRoot]
                        ELSE Discover(f, block_start - PAGE_SIZE, hdr, useLog, log,
                                      probes + 1)
                   ELSE [status |-> "Accept", at |-> block_start, probes |-> probes,
                         root |-> [init |-> TRUE, txn |-> r.txn, data |-> r.data,
                                   dirty |-> FALSE]]
    ELSE IF block_start = 0
         THEN [status |-> "NoRoot", at |-> block_start, probes |-> probes,
               root |-> DefaultRoot]
         ELSE Discover(f, block_start - PAGE_SIZE, hdr, useLog, log, probes + 1)

NoDiscovery == [status |-> "None", at |-> 0, probes |-> 0, root |-> DefaultRoot]

\* A faulty DefaultAtEnd: the write position is left at 0.
DefaultAtStart(a, f) == initialize_default(a)

\* No valid page was found: the default root, to be written at the end of
\* what the file holds (lines 298 and 307).
DefaultAtEnd(a, f) == [initialize_default(a) EXCEPT !.position = f.len]

\* TreeFile::initialize_state.  The result names the outcome, the state left
\* behind and what the discovery loop did.
initialize_state(st, f, hdr, useLog, log) ==
    IF st.published.root.init \/ st.active.root.init
    THEN [status |-> "Ok", state |-> st, scan |-> NoDiscovery]
    ELSE
    LET a1 == [st.active EXCEPT !.file_id = f.id] IN
    IF f.len = 0
    THEN [status |-> "Ok",
          state |-> publish([st EXCEPT !.active = initialize_default(a1)]),
          scan |-> NoDiscovery]
    ELSE IF InitialBlockStart(f.len) < 0
    THEN [status |-> "Underflow", state |-> [st EXCEPT !.active = a1],
          scan |-> NoDiscovery]
    ELSE
    LET d == Discover(f, InitialBlockStart(f.len), hdr, useLog, log, 1) IN
    CASE d.status = "Accept" ->
            [status |-> "Ok",
             state |-> publish([st EXCEPT !.active =
                          [a1 EXCEPT !.root = d.root, !.position = f.len]]),
             scan |-> d]
      [] d.status = "NoRoot" ->
            [status |-> "Ok",
             state |-> publish([st EXCEPT !.active = DefaultAtEnd(a1, f)]),
             scan |-> d]
      [] d.status = "Unpublished" ->
            [status |-> "Ok",
             state |-> [st EXCEPT !.active = initialize_default(a1)],
             scan |-> d]
      [] OTHER ->
            [status |-> d.status, state |-> [st EXCEPT !.active = a1], scan |-> d]

\* ------------------------------------------------------------------ modification

\* Root::modify for one key: Set(value) or Remove (value = NoValue).  The root
\* records the transaction id of the modification, 0 outside a transaction.
modify(a, k, v, txn) ==
    [a EXCEPT !.root.data[k] = v, !.root.txn = txn, !.root.dirty = TRUE]

\* TreeModifier::execute with PersistenceMode::Sync or Flush.
ModifyAndSave(f, st, hdr, k, v, dlen, clen, synchronize) ==
    LET a1 == modify(st.active, k, v, 0)
        s  == save_tree(f, a1, hdr, DataBlockEnd(st.active.position, dlen), clen,
                        synchronize)
    IN [file |-> s.file, state |-> publish([st EXCEPT !.active = s.active])]

\* PersistenceMode::should_synchronize
should_synchronize(mode) == mode = "Sync"

\* A faulty transactional TreeModifier::execute: the active state is
\* published.
ModifyTransactionalPublishes(f, st, k, v, dlen, txn) ==
    LET a1  == modify(st.active, k, v, txn)
        end == DataBlockEnd(st.active.position, dlen)
    IN [file |-> [f EXCEPT !.len = end],
        state |-> publish([st EXCEPT !.active = [a1 EXCEPT !.position = end]])]

\* TreeModifier::execute with PersistenceMode::Transactional(txn): the chunks
\* are appended, the position moves, no root is written, nothing is published.
ModifyTransactional(f, st, k, v, dlen, txn) ==
    LET a1  == modify(st.active, k, v, txn)
        end == DataBlockEnd(st.active.position, dlen)
    IN [file |-> [f EXCEPT !.len = end],
        state |-> [st EXCEPT !.active = [a1 EXCEPT !.position = end]]]

\* TreeWriter::execute (TreeFile::commit): a dirty root is saved and
\* synchronized; nothing is published here.
TreeWriterExecute(f, st, hdr, clen) ==
    IF st.active.root.dirty
    THEN LET s == save_tree(f, st.active, hdr,
                            DataBlockEnd(st.active.position, 0), clen, TRUE)
         IN [file |-> s.file, state |-> [st EXCEPT !.active = s.active]]
    ELSE [file |-> f, state |-> st]

\* ------------------------------------------------------------------ what a file holds

\* The roots of f that are wholly in the file and that the log (when one is
\* given) does not reject.
AcceptableRoots(f, useLog, log) ==
    {i \in 1..Len(f.roots) :
        /\ RootEnd(f.roots[i]) <= f.len
        /\ ~f.roots[i].torn
        /\ (~useLog \/ f.roots[i].txn = 0 \/ f.roots[i].txn \in log)}

\* The contents of the last such root: the empty tree when there is none.
LastAcceptableData(f, useLog, log) ==
    IF AcceptableRoots(f, useLog, log) = {} THEN EmptyData
    ELSE f.roots[SetMax(AcceptableRoots(f, useLog, log))].data

LastAcceptableEnd(f, useLog, log) ==
    IF AcceptableRoots(f, useLog, log) = {} THEN 0
    ELSE RootEnd(f.roots[SetMax(AcceptableRoots(f, useLog, log))])

\* ------------------------------------------------------------------ tree contents

\* KvSpec works on one versioned tree whose keys are the one-byte keys
\* 1..MaxKey; EmptyKey is the empty byte string, which sorts before them.
MaxKey == 5
KMaxWrites == 2
MaxCompact == 1
KKeys == 1..MaxKey
KVals == {"a", "b"}
EmptyKey == 0

\* Option::None of a sequence id.
NoSequence == 0

\* The least order of a B-tree node: a leaf root holds up to KOrder entries.
KOrder == 4

\* bytes of a serialized root, and of the chunk a value is stored in
KRootLen == 20
ValueLen(v) == IF v = "a" THEN 125 ELSE 130

\* A by-id entry: the value and the index, which for a versioned tree is the
\* sequence id of the write that stored the value.
NoEntry == [value |-> NoValue, sequence_id |-> NoSequence]

\* Versioned::default(): both B-trees empty, no sequence id handed out.
KEmptyTree == [by_id |-> [k \in KKeys |-> NoEntry], sequence |-> 0,
               by_sequence |-> {}]

KDefaultRoot == [init |-> FALSE, txn |-> 0, data |-> KEmptyTree, dirty |-> FALSE]

KFreshState ==
    [published |-> [file_id |-> NoFile, position |-> 0, root |-> KDefaultRoot],
     active    |-> [file_id |-> NoFile, position |-> 0, root |-> KDefaultRoot]]

\* KeyOperation
KeySet(v) == [kind |-> "Set", value |-> v]
KeyRemove == [kind |-> "Remove", value |-> NoValue]
KeySkip == [kind |-> "Skip", value |-> NoValue]

\* What the by-id tree hands to a CompareSwap callback for key k.
CurrentIndex(data, k) == data.by_id[k].sequence_id
CurrentValue(data, k) == data.by_id[k].value

\* The modification of one key in both B-trees of a versioned root: a Set
\* stores the value under the next sequence id; a Remove of a stored key
\* deletes the by-id entry and records a sequence entry without a value; the
\* sequence entry names the sequence id the by-id entry held before.
ApplyKeyOperation(data, k, op) ==
    LET seq == data.sequence + 1
        entry(v) == [sequence |-> seq, key |-> k,
                     last_sequence |-> CurrentIndex(data, k), value |-> v]
    IN CASE op.kind = "Set" ->
              [by_id |-> [data.by_id EXCEPT ![k] =
                            [value |-> op.value, sequence_id |-> seq]],
               sequence |-> seq,
               by_sequence |-> data.by_sequence \cup {entry(op.value)}]
         [] op.kind = "Remove" /\ CurrentValue(data, k) # NoValue ->
              [by_id |-> [data.by_id EXCEPT ![k] = NoEntry],
               sequence |-> seq,
               by_sequence |-> data.by_sequence \cup {entry(NoValue)}]
         [] OTHER -> data

\* Root::modify over the ascending keys lo..hi of the set S with one
\* KeyOperation for all of them (Operation::Set, Operation::Remove).
RECURSIVE ApplyToKeys(_, _, _, _)
ApplyToKeys(data, S, op, k) ==
    IF k > MaxKey THEN data
    ELSE ApplyToKeys(IF k \in S THEN ApplyKeyOperation(data, k, op) ELSE data,
                     S, op, k + 1)

\* bytes of value chunks a modification of the keys S appends
RECURSIVE ModifiedBytes(_, _)
ModifiedBytes(S, op) ==
    IF S = {} \/ op.kind # "Set" THEN 0
    ELSE LET k == CHOOSE x \in S : TRUE
         IN ValueLen(op.value) + ModifiedBytes(S \ {k}, op)

\* bytes of the value chunks the by-id tree refers to
RECURSIVE LiveBytesFrom(_, _)
LiveBytesFrom(data, k) ==
    IF k > MaxKey THEN 0
    ELSE (IF CurrentValue(data, k) = NoValue THEN 0
          ELSE ValueLen(CurrentValue(data, k))) + LiveBytesFrom(data, k + 1)

LiveBytes(data) == LiveBytesFrom(data, 1)

\* The keys stored in a tree, and its key/value contents.
StoredKeys(data) == {k \in KKeys : CurrentValue(data, k) # NoValue}
Contents(data) == [k \in KKeys |-> CurrentValue(data, k)]

\* A faulty TreeModifierExecute: the new root is saved but not published.
TreeModifierNoPublish(f, st, hdr, data, dlen, clen, synchronize) ==
    IF st.active.file_id # f.id
    THEN [status |-> "TreeCompacted", file |-> f, state |-> st]
    ELSE LET a1 == [st.active EXCEPT !.root.data = data, !.root.txn = 0,
                                     !.root.dirty = TRUE]
             s  == save_tree(f, a1, hdr, DataBlockEnd(st.active.position, dlen),
                             clen, synchronize)
         IN [status |-> "Ok", file |-> s.file,
             state |-> [st EXCEPT !.active = s.active]]

\* TreeModifier::execute with Sync or Flush for a modification that leaves
\* the root with the contents data and appends dlen bytes of chunks: the
\* handle must be on the file the state names; the root is saved and the
\* active state published.
TreeModifierExecute(f, st, hdr, data, dlen, clen, synchronize) ==
    IF st.active.file_id # f.id
    THEN [status |-> "TreeCompacted", file |-> f, state |-> st]
    ELSE LET a1 == [st.active EXCEPT !.root.data = data, !.root.txn = 0,
                                     !.root.dirty = TRUE]
             s  == save_tree(f, a1, hdr, DataBlockEnd(st.active.position, dlen),
                             clen, synchronize)
         IN [status |-> "Ok", file |-> s.file,
             state |-> publish([st EXCEPT !.active = s.active])]

\* TreeModifier::execute with PersistenceMode::Transactional(txn) for one
\* key: the handle must be on the file the state names; the chunks are
\* appended and the position moves, no root is written, nothing is published.
TreeModifierTransactional(f, st, key, op, txn) ==
    IF st.active.file_id # f.id
    THEN [status |-> "TreeCompacted", file |-> f, state |-> st]
    ELSE LET end == DataBlockEnd(st.active.position, ModifiedBytes({key}, op))
         IN [status |-> "Ok", file |-> [f EXCEPT !.len = end],
             state |-> [st EXCEPT
                          !.active.root.data = ApplyKeyOperation(@, key, op),
                          !.active.root.txn = txn,
                          !.active.root.dirty = TRUE,
                          !.active.position = end]]

\* TreeFile::commit through TreeWriter::execute: the handle must be on the
\* file the state names; a dirty root is saved and synchronized.
TreeFileCommit(f, st, hdr, clen) ==
    IF st.active.file_id # f.id
    THEN [status |-> "TreeCompacted", file |-> f, state |-> st]
    ELSE LET w == TreeWriterExecute(f, st, hdr, clen)
         IN [status |-> "Ok", file |-> w.file, state |-> w.state]

\* ------------------------------------------------------------------ reads

\* The keys of S from k upwards, ascending.
RECURSIVE SortedFrom(_, _)
SortedFrom(S, k) ==
    IF k > MaxKey + 1 THEN << >>
    ELSE (IF k \in S THEN <<k>> ELSE << >>) \o SortedFrom(S, k + 1)

\* The leaves of the by-id tree, ascending: the root is the only leaf while
\* the entries fit into one node; beyond that the entries are split at the
\* median into two leaves under an interior root.
Leaves(data) ==
    LET ks == SortedFrom(StoredKeys(data), 1)
        n  == Len(ks)
    IN IF n <= KOrder THEN <<ks>>
       ELSE <<SubSeq(ks, 1, n \div 2), SubSeq(ks, (n \div 2) + 1, n)>>

\* The entry an interior root holds for leaf i: the greatest key below it
\* and the reduced index of the leaf (ByIdStats, of which alive_keys).
MaxKeyOf(leaf) == leaf[Len(leaf)]
ReducedIndexOf(leaf) == Len(leaf)

Unbounded == [kind |-> "Unbounded", key |-> EmptyKey]
Included(k) == [kind |-> "Included", key |-> k]
Excluded(k) == [kind |-> "Excluded", key |-> k]

\* RangeBounds::contains
RangeContains(range, k) ==
    /\ CASE range.start.kind = "Unbounded" -> TRUE
         [] range.start.kind = "Included" -> range.start.key <= k
         [] OTHER -> range.start.key < k
    /\ CASE range.end.kind = "Unbounded" -> TRUE
         [] range.end.kind = "Included" -> k <= range.end.key
         [] OTHER -> k < range.end.key

\* The children of an interior node a forward scan hands to node_evaluator:
\* not those that end before the range starts, and none once the child
\* before ends at or behind the end of the range.
ChildBeforeRange(range, max_key) ==
    CASE range.start.kind = "Unbounded" -> FALSE
      [] range.start.kind = "Included" -> max_key < range.start.key
      [] OTHER -> max_key <= range.start.key

ChildBehindRange(range, previous_max_key) ==
    CASE range.end.kind = "Unbounded" -> FALSE
      [] range.end.kind = "Included" -> previous_max_key > range.end.key
      [] OTHER -> previous_max_key >= range.end.key

\* The keys of one leaf from position j on that lie within the range, each
\* with what key_evaluator says; Stop ends the scan.
RECURSIVE ScanLeaf(_, _, _, _)
ScanLeaf(leaf, range, keyEval, j) ==
    IF j > Len(leaf) THEN [events |-> << >>, stopped |-> FALSE]
    ELSE IF ~RangeContains(range, leaf[j]) THEN ScanLeaf(leaf, range, keyEval, j + 1)
    ELSE LET ev == [kind |-> "key", at |-> leaf[j], eval |-> keyEval[leaf[j]]]
         IN IF ev.eval = "Stop" THEN [events |-> <<ev>>, stopped |-> TRUE]
            ELSE LET rest == ScanLeaf(leaf, range, keyEval, j + 1)
                 IN [events |-> <<ev>> \o rest.events, stopped |-> rest.stopped]

\* The children of the interior root from child i on.
RECURSIVE ScanChildren(_, _, _, _, _)
ScanChildren(leaves, range, nodeEval, keyEval, i) ==
    IF i > Len(leaves) THEN << >>
    ELSE IF i > 1 /\ ChildBehindRange(range, MaxKeyOf(leaves[i - 1])) THEN << >>
    ELSE IF ChildBeforeRange(range, MaxKeyOf(leaves[i]))
         THEN ScanChildren(leaves, range, nodeEval, keyEval, i + 1)
    ELSE LET ev == [kind |-> "node", at |-> i, eval |-> nodeEval[i]]
         IN CASE ev.eval = "Stop" -> <<ev>>
              [] ev.eval = "Skip" ->
                   <<ev>> \o ScanChildren(leaves, range, nodeEval, keyEval, i + 1)
              [] OTHER ->
                   LET l == ScanLeaf(leaves[i], range, keyEval, 1)
                   IN IF l.stopped THEN <<ev>> \o l.events
                      ELSE <<ev>> \o l.events
                             \o ScanChildren(leaves, range, nodeEval, keyEval, i + 1)

\* Root::scan, forwards: what the evaluators were asked, in order.  nodeEval
\* gives the answer of node_evaluator for each child of the root, keyEval
\* that of key_evaluator for each key.
Scan(data, range, nodeEval, keyEval) ==
    LET leaves == Leaves(data)
    IN IF Len(leaves) = 1 THEN ScanLeaf(leaves[1], range, keyEval, 1).events
       ELSE ScanChildren(leaves, range, nodeEval, keyEval, 1)

\* The keys whose data a scan reads, in the order read.
RECURSIVE KeysRead(_)
KeysRead(events) ==
    IF events = << >> THEN << >>
    ELSE (IF events[1].kind = "key" /\ events[1].eval = "ReadData"
          THEN <<events[1].at>> ELSE << >>) \o KeysRead(Tail(events))

\* Root::get_multiple: one descent for the ascending keys; a leaf that ends
\* before the next key is left behind and never visited again.
RECURSIVE GetMultipleFrom(_, _, _, _, _)
GetMultipleFrom(leaves, keys, keyEval, i, l) ==
    IF i > Len(keys) \/ l > Len(leaves) THEN << >>
    ELSE IF leaves[l] = << >> \/ MaxKeyOf(leaves[l]) < keys[i]
         THEN GetMultipleFrom(leaves, keys, keyEval, i, l + 1)
    ELSE IF \E j \in 1..Len(leaves[l]) : leaves[l][j] = keys[i]
         THEN LET ev == [kind |-> "key", at |-> keys[i], eval |-> keyEval[keys[i]]]
              IN IF ev.eval = "Stop" THEN <<ev>>
                 ELSE <<ev>> \o GetMultipleFrom(leaves, keys, keyEval, i + 1, l)
    ELSE GetMultipleFrom(leaves, keys, keyEval, i + 1, l)

\* TreeGetter::execute for a list of keys: the active root inside a
\* transaction, else the published one; the handle must be on the file the
\* state names.  key_reader receives each key read with its value and index.
RECURSIVE PairsOf(_, _)
PairsOf(data, ks) ==
    IF ks = << >> THEN << >>
    ELSE <<[key |-> ks[1], value |-> CurrentValue(data, ks[1]),
            index |-> CurrentIndex(data, ks[1])]>> \o PairsOf(data, Tail(ks))

\* A faulty TreeGetterExecute: the file of the handle is not compared with
\* the file the state names.
TreeGetterNoCheck(f, st, keys, keyEval, from_transaction) ==
    LET state == IF from_transaction THEN st.active ELSE st.published
    IN [status |-> "Ok",
        read |-> PairsOf(state.root.data,
                    KeysRead(GetMultipleFrom(Leaves(state.root.data), keys,
                                             keyEval, 1, 1)))]

\* TreeGetter::execute: the keys are looked up in the active root inside a
\* transaction, else in the published one; the handle must be on the file
\* the state names.
TreeGetterExecute(f, st, keys, keyEval, from_transaction) ==
    LET state == IF from_transaction THEN st.active ELSE st.published
    IN IF state.file_id # f.id
       THEN [status |-> "TreeCompacted", read |-> << >>]
       ELSE [status |-> "Ok",
             read |-> PairsOf(state.root.data,
                         KeysRead(GetMultipleFrom(Leaves(state.root.data), keys,
                                                  keyEval, 1, 1)))]

\* A faulty ReadDataEvaluator: no value is read.
SkipEvaluator == [k \in KKeys |-> "Skip"]

\* key_evaluator of TreeFile::get and TreeFile::get_multiple
ReadDataEvaluator == [k \in KKeys |-> "ReadData"]

\* TreeFile::get: buffer is the value key_reader was last called with.
get(f, st, key, in_transaction) ==
    LET r == TreeGetterExecute(f, st, <<key>>, ReadDataEvaluator, in_transaction)
    IN IF r.status # "Ok" THEN r.status
       ELSE IF r.read = << >> THEN NoValue ELSE r.read[Len(r.read)].value

\* TreeScanner::execute, forwards: the scan is made on the active root inside
\* a transaction, else on the published one; the handle must be on the file
\* the state names.
TreeScannerExecute(f, st, range, nodeEval, keyEval, from_transaction) ==
    LET state == IF from_transaction THEN st.active ELSE st.published
    IN IF state.file_id # f.id
       THEN [status |-> "TreeCompacted", events |-> << >>]
       ELSE [status |-> "Ok",
             events |-> Scan(state.root.data, range, nodeEval, keyEval)]

\* TreeSequenceScanner::execute over the full range: the entries of the
\* by-sequence tree of the active root inside a transaction, else of the
\* published one; the handle must be on the file the state names.
TreeSequenceScannerExecute(f, st, from_transaction) ==
    LET state == IF from_transaction THEN st.active ELSE st.published
    IN IF state.file_id # f.id
       THEN [status |-> "TreeCompacted", sequences |-> {}]
       ELSE [status |-> "Ok", sequences |-> state.root.data.by_sequence]

\* A faulty ScanAllNodes: no child of the root is read.
SkipAllNodes == [i \in 1..MaxKey |-> "Skip"]

\* node_evaluator of TreeFile::get_range
ScanAllNodes == [i \in 1..MaxKey |-> "ReadData"]

\* ------------------------------------------------------------------ variables

VARIABLES
    tfile,      \* FileSpec: the tree file on disk
    tstate,     \* FileSpec: the State handed to TreeFile::write
    topen,      \* FileSpec: "Closed", or how the last open ended
    thdr,       \* FileSpec: Root::HEADER of the open handle
    tuselog,    \* FileSpec: whether the open was given a transaction manager
    tscan,      \* FileSpec: what the discovery loop of the last open did
    flog,       \* FileSpec: transaction ids the log reports as successful
    twrites,    \* FileSpec: write operations so far
    tcut,       \* FileSpec: whether the file was truncated since it was written
    tplain,     \* FileSpec: only Sync/Flush modifications so far, no truncation
    tlast,      \* FileSpec: contents of the last root written
    files,      \* Spec: the file of each tree
    states,     \* Spec: Roots.tree_states, the State of each tree
    openres,    \* Spec: how the last open of each tree ended
    log,        \* Spec: transaction ids the log manager has recorded
    nextId,     \* Spec: the next transaction id
    locks,      \* Spec: tree names locked by the transaction manager
    tx,         \* Spec: the ExecutingTransaction of each transaction id
    owner,      \* Spec: the last transaction begun over each tree, 0 when
                \*       none was since the process started
    compactions, \* Spec: compactions so far
    crashed,    \* Spec: whether the process has been killed and restarted
    kfile,      \* KvSpec: the tree file on disk
    kstate,     \* KvSpec: the State of the open TreeFile
    kopen,      \* KvSpec: whether a TreeFile handle is open
    kwrites,    \* KvSpec: modifications so far
    kcompacts,  \* KvSpec: compactions so far
    kres,       \* KvSpec: the last operation, its arguments and what it returned
    cfile,      \* CompactSpec: the file at the path of the tree
    cstate,     \* CompactSpec: the State of the tree, shared by all handles
    cnew,       \* CompactSpec: the file the compactor has written, not yet
                \*              in the place of the tree file
    clock,      \* CompactSpec: the thread whose transaction holds the name
                \*              of the tree, 0 when none does
    cnextid,    \* CompactSpec: the next transaction id
    cruns,      \* CompactSpec: compactions finished
    cthreads,   \* CompactSpec: where each thread is and what it has seen
    ndisk,      \* NameSpec: the names that have a "<name>.nebari" file
    nstates,    \* NameSpec: the names in Roots' tree_states map
    nres,       \* NameSpec: the last call, its argument and what it returned
    pw,         \* PagedSpec: a PagedWriter, where it started and what it wrote
    pool,       \* PoolSpec: the ThreadPool, its queue and its threads
    callers,    \* PoolSpec: where each call of commit_trees is
    ord,        \* OrderSpec: a call of dynamic_order and what it returned
    hs          \* HandleSpec: one tree of a Roots, its file, its States and
                \* the Tree handles on it

fvars == <<tfile, tstate, topen, thdr, tuselog, tscan, flog, twrites, tcut,
           tplain, tlast>>

rvars == <<files, states, openres, log, nextId, locks, tx, owner, compactions,
           crashed>>

kvars == <<kfile, kstate, kopen, kwrites, kcompacts, kres>>

cvars == <<cfile, cstate, cnew, clock, cnextid, cruns, cthreads>>

nvars == <<ndisk, nstates, nres>>

tvars == <<pool, callers>>

ovars == <<ord, hs>>

vars == <<fvars, rvars, kvars, cvars, nvars, pw, tvars, ovars>>

\* what the actions of one specification leave alone
restF == <<rvars, kvars, cvars, nvars, pw, tvars, ovars>>
restR == <<fvars, kvars, cvars, nvars, pw, tvars, ovars>>
restK == <<fvars, rvars, cvars, nvars, pw, tvars, ovars>>
restC == <<fvars, rvars, kvars, nvars, pw, tvars, ovars>>
restN == <<fvars, rvars, kvars, cvars, pw, tvars, ovars>>
restP == <<fvars, rvars, kvars, cvars, nvars, tvars, ovars>>
restT == <<fvars, rvars, kvars, cvars, nvars, pw, ovars>>
restO == <<fvars, rvars, kvars, cvars, nvars, pw, tvars>>

\* ------------------------------------------------------------------ FileSpec

\* ------------------------------------------------------------------ Roots: data

TreeNames == {"a", "b"}

\* Root::HEADER of the root type each tree is used with.
TreeHeader(t) == IF t = "a" THEN VersionedHeader ELSE UnversionedHeader

\* sizes of what a transaction appends to a tree file
TxDataLens == {40}
TxRootLens == {20}

Unset == "unset"

\* owner of a tree whose last writer was a compaction
ByCompaction == MaxTx + 1

\* The value transaction id writes: each transaction writes one of its own.
TxValues == <<"v1", "v2", "v3", "v4">>
TxValue(id) == TxValues[id]

\* An ExecutingTransaction and its commit in progress:
\*   pc       where the handle is: "none", "unopened" (Roots::transaction
\*            failed), "open", "committing" (commit_trees), "logged" (the log
\*            has the commit, states are being published), "done", "failed"
\*            (commit returned an error), "dropping" (Drop has rolled the
\*            trees back), "rolledback", "crashed"
\*   trees    the names the transaction was begun over
\*   held     self.trees: the trees the handle still owns
\*   queue    trees handed to commit_trees and not yet committed
\*   written  trees whose TransactionTree::commit returned Ok
\*   errs     trees whose TransactionTree::commit returned an error
\*   pubd     trees whose state commit has published
\*   base     the published contents of each tree when the transaction began
\*   last     the value the transaction last set for the key of each tree
\*   prev     the transaction that was begun over each tree before this one
\*   fid      the id of the file each TransactionTree was opened on
\*   torn     whether the process died in commit_trees, before the log commit
NoTx == [pc |-> "none", trees |-> {}, held |-> {}, queue |-> {}, written |-> {},
         errs |-> {}, pubd |-> {},
         prev |-> [t \in TreeNames |-> 0],
         fid |-> [t \in TreeNames |-> NoFile],
         base |-> [t \in TreeNames |-> EmptyData],
         last |-> [t \in TreeNames |-> Unset],
         torn |-> FALSE]

FIdle ==
    /\ tfile = EmptyFile(1)
    /\ tstate = FreshState
    /\ topen = "Closed"
    /\ thdr = 0
    /\ tuselog = FALSE
    /\ tscan = NoDiscovery
    /\ flog = {}
    /\ twrites = 0
    /\ tcut = FALSE
    /\ tplain = TRUE
    /\ tlast = EmptyData

\* Roots after Config::open on a directory where Roots::tree has created the
\* (empty) file of each tree; nothing is loaded yet.
RIdle ==
    /\ files = [t \in TreeNames |-> EmptyFile(1)]
    /\ states = [t \in TreeNames |-> FreshState]
    /\ openres = [t \in TreeNames |-> "None"]
    /\ log = {}
    /\ nextId = 1
    /\ locks = {}
    /\ tx = [id \in TxIds |-> NoTx]
    /\ owner = [t \in TreeNames |-> 0]
    /\ compactions = 0
    /\ crashed = FALSE

\* Nothing was asked of the tree yet.
FullRange == [start |-> Unbounded, end |-> Unbounded]

KNoRes == [op |-> "none", status |-> "none", keys |-> << >>, range |-> FullRange,
           old |-> NoValue, new |-> NoValue, value |-> NoValue,
           index |-> NoSequence, current |-> NoValue, read |-> << >>,
           some |-> FALSE, alive_keys |-> 0, pushed |-> {},
           before |-> KEmptyTree.by_id, len |-> 0, dead |-> FALSE,
           replaced |-> EmptyFile(1), kind |-> "none", touched |-> FALSE,
           read_from |-> NoFile, root_in |-> NoFile]

\* An empty file that no TreeFile has been opened on.
KIdle ==
    /\ kfile = EmptyFile(1)
    /\ kstate = KFreshState
    /\ kopen = FALSE
    /\ kwrites = 0
    /\ kcompacts = 0
    /\ kres = KNoRes

\* The threads of compact_test: the workers, each on its own key, and the
\* thread that compacts; the tree holds one more key from the start.
NumWorkers == 2
MaxCompactRuns == 2
Workers == 1..NumWorkers
Compactor == NumWorkers + 1
Threads == Workers \cup {Compactor}
FooKey == MaxKey
WorkerKey(w) == w
WorkerValue(w) == IF w = 1 THEN "a" ELSE "b"

NoThread == [pc |-> "idle", handle |-> NoFile, txn |-> 0, removed |-> NoValue,
             got |-> NoValue, retried |-> FALSE, failed |-> FALSE,
             asked |-> "none", answer |-> 0, visible |-> 0]

\* No thread has been spawned on the tree.
CIdle ==
    /\ cfile = EmptyFile(1)
    /\ cstate = KFreshState
    /\ cnew = EmptyFile(1)
    /\ clock = 0
    /\ cnextid = 1
    /\ cruns = 0
    /\ cthreads = [t \in Threads |-> NoThread]

\* Roots::open on an empty directory: no tree file, no tree state.
NNoRes == [op |-> "none", name |-> <<>>, status |-> "none", deleted |-> FALSE,
           existed |-> FALSE]

NIdle ==
    /\ ndisk = {}
    /\ nstates = {}
    /\ nres = NNoRes

\* No PagedWriter has been made.
PNoWriter == [pc |-> "none", with_header |-> FALSE, header |-> VersionedHeader,
              position |-> 0, written |-> << >>, chunk_at |-> 0, length |-> 0]

PIdle == pw = PNoWriter

\* The calls of commit_trees that share one ThreadPool.
NumCallers == 2
Callers == 1..NumCallers

\* A call of commit_trees that has not started.
NoCall == [pc |-> "idle", tree_count |-> 0, thread_count |-> 0, results |-> 0,
           returned |-> "none", spawned |-> 0]

TIdle ==
    /\ pool = [maximum_threads |-> 0, thread_count |-> 0, spawned |-> 0,
               queue |-> << >>, completions |-> [c \in Callers |-> << >>]]
    /\ callers = [c \in Callers |-> NoCall]

\* No call of dynamic_order.
NoOrder == [number_of_records |-> 0, max_order |-> << >>, returned |-> << >>]

\* The Tree handles taken on the tree, and the keys and values they write.
NumHandles == 2
Handles == 1..NumHandles
HKeys == {1, 2}
HVals == {"a", "b"}

HNoRes == [op |-> "none", handle |-> 0, key |-> 0, value |-> NoValue, status |-> "none"]

\* Roots::open on an empty directory: no tree file, no State, no handle.
HNoTree ==
    [exists |-> FALSE, file |-> EmptyFile(NoFile), nextid |-> 1, states |-> << >>,
     entry |-> 0, handles |-> [h \in Handles |-> 0], before |-> {}, sets |-> 0,
     deletes |-> 0, txn |-> 1, committed |-> [k \in HKeys |-> NoValue],
     writer |-> [k \in HKeys |-> 0], res |-> HNoRes]

OIdle == ord = NoOrder /\ hs = HNoTree

FInit == FIdle /\ RIdle /\ KIdle /\ CIdle /\ NIdle /\ PIdle /\ TIdle /\ OIdle

\* TreeFile::write(path, State::default(), context, transactions) for a root
\* type with header kind hdr.
FOpen(hdr, useLog) ==
    /\ topen = "Closed"
    /\ LET r == initialize_state(FreshState, tfile, hdr, useLog, flog) IN
       /\ tstate' = r.state
       /\ tscan' = r.scan
       /\ IF r.status = "Underflow"
          THEN topen' \in {"Panic", "IoError"}
          ELSE topen' = r.status
    /\ thdr' = hdr
    /\ tuselog' = useLog
    /\ UNCHANGED <<tfile, flog, twrites, tcut, tplain, tlast>>
    /\ UNCHANGED restF

\* The handle and its State are dropped.
FClose ==
    /\ topen # "Closed"
    /\ topen' = "Closed"
    /\ tstate' = FreshState
    /\ thdr' = 0
    /\ tuselog' = FALSE
    /\ tscan' = NoDiscovery
    /\ UNCHANGED <<tfile, flog, twrites, tcut, tplain, tlast>>
    /\ UNCHANGED restF

\* TreeFile::set / TreeFile::modify(Remove) with Sync or Flush.
FModify(k, v, dlen, clen, synchronize) ==
    /\ topen = "Ok"
    /\ ~tcut
    /\ twrites < MaxWrites
    /\ LET r == ModifyAndSave(tfile, tstate, thdr, k, v, dlen, clen, synchronize) IN
       /\ tfile' = r.file
       /\ tstate' = r.state
       /\ tlast' = r.state.active.root.data
    /\ twrites' = twrites + 1
    /\ tuselog' = FALSE
    /\ tscan' = NoDiscovery
    /\ UNCHANGED <<topen, thdr, flog, tcut, tplain>>
    /\ UNCHANGED restF

\* TreeFile::set / modify with Transactional(txn).
FModifyTx(k, v, dlen, txn) ==
    /\ topen = "Ok"
    /\ ~tcut
    /\ twrites < MaxWrites
    /\ LET r == ModifyTransactional(tfile, tstate, k, v, dlen, txn) IN
       /\ tfile' = r.file
       /\ tstate' = r.state
    /\ twrites' = twrites + 1
    /\ tplain' = FALSE
    /\ tuselog' = FALSE
    /\ tscan' = NoDiscovery
    /\ UNCHANGED <<topen, thdr, flog, tcut, tlast>>
    /\ UNCHANGED restF

\* TreeFile::commit.
FCommit(clen) ==
    /\ topen = "Ok"
    /\ ~tcut
    /\ tstate.active.root.dirty
    /\ LET r == TreeWriterExecute(tfile, tstate, thdr, clen) IN
       /\ tfile' = r.file
       /\ tstate' = r.state
       /\ tlast' = r.state.active.root.data
    /\ tuselog' = FALSE
    /\ tscan' = NoDiscovery
    /\ UNCHANGED <<topen, thdr, flog, twrites, tcut, tplain>>
    /\ UNCHANGED restF

\* The log manager records transaction txn as committed.
FLogCommit(txn) ==
    /\ txn \notin flog
    /\ \E i \in 1..Len(tfile.roots) : tfile.roots[i].txn = txn
    /\ flog' = flog \cup {txn}
    /\ UNCHANGED <<tfile, tstate, topen, thdr, tuselog, tscan, twrites, tcut,
                   tplain, tlast>>
    /\ UNCHANGED restF

\* The crash points tried on a file: every kind of partial write behind the
\* floor (nothing, part of the file magic, part of the padding, part of the
\* page header, the page header alone, part of the chunk header, the chunk
\* header alone, all but the last byte of the root chunk, one byte of
\* whatever follows it).
CutPoints(f, floor) ==
    ({floor, f.len - 1, 1, PAGE_HEADER_LEN - 1}
       \cup UNION {{f.roots[i].at - 1,
                    f.roots[i].at,
                    f.roots[i].at + 2,
                    f.roots[i].at + PAGE_HEADER_LEN,
                    f.roots[i].at + PAGE_HEADER_LEN + 3,
                    f.roots[i].at + PAGE_HEADER_LEN + CHUNK_HEADER_LEN,
                    RootEnd(f.roots[i]) - 1,
                    RootEnd(f.roots[i]),
                    RootEnd(f.roots[i]) + 1} : i \in 1..Len(f.roots)})
    \cap floor..(f.len - 1)

\* A crash leaves the first T bytes of the closed file.
FTruncate(T) ==
    /\ T < tfile.len
    /\ tfile' = Truncated(tfile, T)
    /\ tcut' = TRUE
    /\ tplain' = FALSE
    /\ UNCHANGED <<tstate, topen, thdr, tuselog, tscan, flog, twrites, tlast>>
    /\ UNCHANGED restF

\* The process dies while the file is closed or being written: what is left
\* is a prefix of the file that contains the last committed root.
FCrash ==
    /\ topen = "Closed"
    /\ ~tcut
    /\ \E T \in CutPoints(tfile, LastAcceptableEnd(tfile, TRUE, flog)) :
          FTruncate(T)

FWrite ==
    \/ \E k \in Keys, v \in Vals \cup {NoValue}, dlen \in DataLens,
          clen \in RootLens, synchronize \in BOOLEAN :
          FModify(k, v, dlen, clen, synchronize)
    \/ \E k \in Keys, v \in Vals \cup {NoValue}, dlen \in DataLens, txn \in FileTxIds :
          FModifyTx(k, v, dlen, txn)
    \/ \E clen \in RootLens : FCommit(clen)
    \/ \E txn \in FileTxIds : FLogCommit(txn)

FNext ==
    \/ \E hdr \in HeaderKinds, useLog \in BOOLEAN : FOpen(hdr, useLog)
    \/ FClose
    \/ FWrite

FileSpec == FInit /\ [][FNext]_vars

\* FileSpec with crashes: the file may be cut once while it is closed.
CrashNext ==
    \/ \E hdr \in HeaderKinds, useLog \in BOOLEAN : FOpen(hdr, useLog)
    \/ FClose
    \/ FWrite
    \/ FCrash

CrashSpec == FInit /\ [][CrashNext]_vars

\* ------------------------------------------------------------------ Roots: operations

\* TreeFile::read / TreeFile::write through Roots: the State of the tree is
\* initialized from its file, with the transaction log.
OpenTree(t) == initialize_state(states[t], files[t], TreeHeader(t), TRUE, log)

\* How a failed open shows: the subtraction at line 241 panics in a build with
\* overflow checks and wraps in one without, where the read then fails.
OpenOutcomes(status) ==
    IF status = "Underflow" THEN {"Panic", "IoError"} ELSE {status}

\* A faulty TreeGetter: every read goes to the active state.
TreeGetterActive(st, k, from_transaction) == st.active.root.data[k]

\* TreeGetter::execute: a read inside a transaction locks the active state,
\* any other read takes the published one.
TreeGetter(st, k, from_transaction) ==
    IF from_transaction THEN st.active.root.data[k]
    ELSE st.published.root.data[k]

\* A faulty rollback_tree_states: no tree is rolled back.
rollback_no_tree_states(sts, held) == sts

\* ExecutingTransaction::rollback_tree_states over the trees the handle holds.
rollback_tree_states(sts, held) ==
    [t \in TreeNames |-> IF t \in held THEN rollback(sts[t]) ELSE sts[t]]

\* Roots::transaction over the trees T: the names are locked (the caller
\* waits while another transaction holds one), then each tree is opened for
\* writing; the first tree that fails to open ends the call.
\* A transaction manager that hands out a transaction without waiting for
\* the names.
new_transaction_no_wait(held, T) == TRUE

\* TransactionManager::new_transaction(names): returns once none of the names
\* is held by another transaction, and holds them from then on.
new_transaction(held, T) == T \cap held = {}

Begin(T) ==
    /\ nextId <= MaxTx
    /\ T # {}
    /\ new_transaction(locks, T)
    /\ LET id  == nextId
           o   == [t \in T |-> OpenTree(t)]
           bad == {t \in T : o[t].status # "Ok"}
       IN /\ nextId' = nextId + 1
          /\ IF bad = {}
             THEN /\ states' = [t \in TreeNames |->
                                  IF t \in T THEN o[t].state ELSE states[t]]
                  /\ openres' = [t \in TreeNames |->
                                  IF t \in T THEN "Ok" ELSE openres[t]]
                  /\ locks' = locks \cup T
                  /\ owner' = [t \in TreeNames |->
                                  IF t \in T THEN id ELSE owner[t]]
                  /\ tx' = [tx EXCEPT ![id] =
                              [NoTx EXCEPT !.pc = "open", !.trees = T, !.held = T,
                                 !.prev = [t \in TreeNames |->
                                    IF t \in T THEN owner[t] ELSE 0],
                                 !.fid = [t \in TreeNames |->
                                    IF t \in T THEN files[t].id ELSE NoFile],
                                 !.base = [t \in TreeNames |->
                                    IF t \in T THEN o[t].state.published.root.data
                                    ELSE EmptyData]]]
             ELSE /\ \E f \in bad, S \in SUBSET (T \ bad) :
                     \E out \in OpenOutcomes(o[f].status) :
                        /\ states' = [t \in TreeNames |->
                               IF t \in S \cup {f} THEN o[t].state ELSE states[t]]
                        /\ openres' = [t \in TreeNames |->
                               IF t \in S THEN "Ok"
                               ELSE IF t = f THEN out ELSE openres[t]]
                  /\ tx' = [tx EXCEPT ![id] =
                              [NoTx EXCEPT !.pc = "unopened", !.trees = T]]
                  /\ UNCHANGED <<locks, owner>>
    /\ UNCHANGED <<files, log, compactions, crashed>>
    /\ UNCHANGED restR

\* TransactionTree::set on tree t of transaction id.
TxSet(id, t, v, dlen) ==
    /\ tx[id].pc = "open"
    /\ t \in tx[id].held
    /\ tx[id].last[t] = Unset
    /\ LET r == ModifyTransactional(files[t], states[t], "k", v, dlen, id) IN
       /\ files' = [files EXCEPT ![t] = r.file]
       /\ states' = [states EXCEPT ![t] = r.state]
    /\ tx' = [tx EXCEPT ![id].last[t] = v]
    /\ UNCHANGED <<openres, log, nextId, locks, owner, compactions, crashed>>
    /\ UNCHANGED restR

\* ExecutingTransaction::rollback, or the handle is dropped uncommitted: Drop
\* first rolls back the trees it holds (the trees are drained from the
\* handle); the transaction still holds its names.
Rollback(id) ==
    /\ tx[id].pc = "open"
    /\ states' = rollback_tree_states(states, tx[id].held)
    /\ tx' = [tx EXCEPT ![id].pc = "dropping", ![id].held = {}]
    /\ UNCHANGED <<files, openres, log, nextId, locks, owner, compactions, crashed>>
    /\ UNCHANGED restR

\* Drop, last statement: drop(transaction) releases the names of the trees.
DropTransaction(id) ==
    /\ tx[id].pc = "dropping"
    /\ locks' = locks \ tx[id].trees
    /\ tx' = [tx EXCEPT ![id].pc = "rolledback"]
    /\ UNCHANGED <<files, states, openres, log, nextId, owner, compactions, crashed>>
    /\ UNCHANGED restR

\* Tree::get and the other reads outside a transaction: open_for_read loads
\* the State when it is not initialized yet; the read itself changes nothing.
Get(t) ==
    /\ openres[t] # "Ok"
    /\ LET o == OpenTree(t) IN
       /\ states' = [states EXCEPT ![t] = o.state]
       /\ \E out \in OpenOutcomes(o.status) :
             openres' = [openres EXCEPT ![t] = out]
    /\ UNCHANGED <<files, log, nextId, locks, tx, owner, compactions, crashed>>
    /\ UNCHANGED restR

\* ExecutingTransaction::commit, first statement: the trees are taken out of
\* the handle and handed to ThreadPool::commit_trees.
Commit(id) ==
    /\ tx[id].pc = "open"
    /\ tx' = [tx EXCEPT ![id].pc = "committing", ![id].held = {},
                        ![id].queue = tx[id].trees]
    /\ UNCHANGED <<files, states, openres, log, nextId, locks, owner, compactions,
                   crashed>>
    /\ UNCHANGED restR

\* TransactionTree::commit of one tree, inline or on a worker of the pool:
\* TreeWriter::execute.  A worker also commits the trees that are still queued
\* when commit_trees has already returned another tree's error.
CommitTree(id, t, clen) ==
    /\ t \in tx[id].queue
    /\ IF states[t].active.file_id # tx[id].fid[t]
       THEN /\ tx' = [tx EXCEPT ![id].queue = @ \ {t}, ![id].errs = @ \cup {t}]
            /\ UNCHANGED <<files, states>>
       ELSE LET r == TreeWriterExecute(files[t], states[t], TreeHeader(t), clen) IN
            /\ files' = [files EXCEPT ![t] = r.file]
            /\ states' = [states EXCEPT ![t] = r.state]
            /\ tx' = [tx EXCEPT ![id].queue = @ \ {t}, ![id].written = @ \cup {t}]
    /\ UNCHANGED <<openres, log, nextId, locks, owner, compactions, crashed>>
    /\ UNCHANGED restR

\* TransactionTree::commit of one tree fails with an I/O error before anything
\* reaches the file.
CommitTreeFails(id, t) ==
    /\ t \in tx[id].queue
    /\ tx' = [tx EXCEPT ![id].queue = @ \ {t}, ![id].errs = @ \cup {t}]
    /\ UNCHANGED <<files, states, openres, log, nextId, locks, owner, compactions,
                   crashed>>
    /\ UNCHANGED restR

\* commit_trees returns the first error it receives and commit returns it:
\* the handle is dropped with no tree left in it, the transaction with it.
CommitFailed(id) ==
    /\ tx[id].pc = "committing"
    /\ tx[id].errs # {}
    /\ states' = rollback_tree_states(states, tx[id].held)
    /\ locks' = locks \ tx[id].trees
    /\ tx' = [tx EXCEPT ![id].pc = "failed"]
    /\ UNCHANGED <<files, openres, log, nextId, owner, compactions, crashed>>
    /\ UNCHANGED restR

\* A faulty CommitTreesDone: one result is enough.
CommitTreesDoneEarly(written, trees) == written # {}

\* commit_trees has received an Ok from every tree.
CommitTreesDone(written, trees) == written = trees

\* transaction.commit(): the log manager records the transaction.
LogCommit(id) ==
    /\ tx[id].pc = "committing"
    /\ CommitTreesDone(tx[id].written, tx[id].trees)
    /\ log' = log \cup {id}
    /\ tx' = [tx EXCEPT ![id].pc = "logged"]
    /\ UNCHANGED <<files, states, openres, nextId, locks, owner, compactions,
                   crashed>>
    /\ UNCHANGED restR

\* transaction.commit() fails: commit returns the error; the transaction was
\* consumed, so the drop of the handle does nothing more.
LogCommitFails(id) ==
    /\ tx[id].pc = "committing"
    /\ CommitTreesDone(tx[id].written, tx[id].trees)
    /\ locks' = locks \ tx[id].trees
    /\ tx' = [tx EXCEPT ![id].pc = "failed"]
    /\ UNCHANGED <<files, states, openres, log, nextId, owner, compactions,
                   crashed>>
    /\ UNCHANGED restR

\* One turn of "for tree in trees { tree.state().publish(); }".
PublishTree(id, t) ==
    /\ tx[id].pc = "logged"
    /\ t \in tx[id].trees \ tx[id].pubd
    /\ states' = [states EXCEPT ![t] = publish(states[t])]
    /\ tx' = [tx EXCEPT ![id].pubd = @ \cup {t}]
    /\ UNCHANGED <<files, openres, log, nextId, locks, owner, compactions,
                   crashed>>
    /\ UNCHANGED restR

\* A faulty AllPublished: the locks may go once one tree is published.
SomePublished(pubd, trees) == pubd # {}

\* The publishing loop of commit has run to its end.
AllPublished(pubd, trees) == pubd = trees

\* drop(tree_locks); Ok(())
Finish(id) ==
    /\ tx[id].pc = "logged"
    /\ AllPublished(tx[id].pubd, tx[id].trees)
    /\ locks' = locks \ tx[id].trees
    /\ tx' = [tx EXCEPT ![id].pc = "done"]
    /\ UNCHANGED <<files, states, openres, log, nextId, owner, compactions,
                   crashed>>
    /\ UNCHANGED restR

\* Tree::compact: the tree is opened for reading; the compactor locks the
\* name, copies the live chunks and the active root into a new file, which
\* replaces the old one; the finisher stores the new file id and publishes
\* the active state.  The transaction id allocated with the lock is never
\* stored or logged.
Compact(t, dlen, clen) ==
    /\ compactions < MaxCompactions
    /\ new_transaction(locks, {t})
    /\ compactions' = compactions + 1
    /\ owner' = [owner EXCEPT ![t] = ByCompaction]
    /\ LET o == OpenTree(t) IN
       IF o.status # "Ok"
       THEN /\ states' = [states EXCEPT ![t] = o.state]
            /\ \E out \in OpenOutcomes(o.status) :
                  openres' = [openres EXCEPT ![t] = out]
            /\ UNCHANGED files
       ELSE LET new_file_id == files[t].id + 1
                s == save_tree(EmptyFile(new_file_id), o.state.active,
                               TreeHeader(t), DataBlockEnd(0, dlen), clen, TRUE)
            IN /\ files' = [files EXCEPT ![t] = s.file]
               /\ states' = [states EXCEPT ![t] =
                     publish([o.state EXCEPT !.active =
                                [s.active EXCEPT !.file_id = new_file_id]])]
               /\ openres' = [openres EXCEPT ![t] = "Ok"]
    /\ UNCHANGED <<log, nextId, locks, tx, crashed>>
    /\ UNCHANGED restR

\* What a kill of the process may leave of the file of tree t: everything, only
\* what was synchronized, one byte more than that, or, when a worker was
\* about to write the root of t, that root torn inside its chunk header.
CrashImages(t) ==
    LET f == files[t]
        cuts == {f.synced, f.len} \cup {x \in {f.synced + 1} : x < f.len}
        writing == \E id \in TxIds :
                      /\ t \in tx[id].queue
                      /\ states[t].active.file_id = tx[id].fid[t]
                      /\ states[t].active.root.dirty
    IN {Truncated(f, T) : T \in cuts}
       \cup (IF writing
             THEN {LET W == TreeWriterExecute(f, states[t], TreeHeader(t), clen).file
                   IN Truncated(W, W.roots[Len(W.roots)].at + PAGE_HEADER_LEN + 3)
                     : clen \in TxRootLens}
             ELSE {})

\* The process is killed and Roots is opened again: nothing in memory
\* survives, the files and the log do.
Crash ==
    /\ ~crashed
    /\ crashed' = TRUE
    /\ \E img \in [TreeNames -> UNION {CrashImages(t) : t \in TreeNames}] :
          /\ \A t \in TreeNames : img[t] \in CrashImages(t)
          /\ files' = img
    /\ states' = [t \in TreeNames |-> FreshState]
    /\ openres' = [t \in TreeNames |-> "None"]
    /\ locks' = {}
    /\ owner' = [t \in TreeNames |-> 0]
    /\ tx' = [id \in TxIds |->
                IF tx[id].pc \in {"open", "dropping", "committing", "logged"}
                   \/ tx[id].queue # {}
                THEN [tx[id] EXCEPT !.pc = "crashed", !.held = {}, !.queue = {},
                                    !.torn = (tx[id].pc = "committing")]
                ELSE tx[id]]
    /\ UNCHANGED <<log, nextId, compactions>>
    /\ UNCHANGED restR

Next ==
    \/ \E T \in SUBSET TreeNames : Begin(T)
    \/ \E id \in TxIds, t \in TreeNames, dlen \in TxDataLens :
          TxSet(id, t, TxValue(id), dlen)
    \/ \E id \in TxIds : Rollback(id)
    \/ \E id \in TxIds : DropTransaction(id)
    \/ \E id \in TxIds : Commit(id)
    \/ \E id \in TxIds, t \in TreeNames, clen \in TxRootLens : CommitTree(id, t, clen)
    \/ \E id \in TxIds, t \in TreeNames : CommitTreeFails(id, t)
    \/ \E id \in TxIds : CommitFailed(id)
    \/ \E id \in TxIds : LogCommit(id)
    \/ \E id \in TxIds : LogCommitFails(id)
    \/ \E id \in TxIds, t \in TreeNames : PublishTree(id, t)
    \/ \E id \in TxIds : Finish(id)
    \/ \E t \in TreeNames : Get(t)
    \/ \E t \in TreeNames, dlen \in TxDataLens, clen \in TxRootLens :
          Compact(t, dlen, clen)
    \/ Crash

Init == FIdle /\ RIdle /\ KIdle /\ CIdle /\ NIdle /\ PIdle /\ TIdle /\ OIdle

Spec == Init /\ [][Next]_vars

\* ------------------------------------------------------------------ KvSpec

\* A faulty CompareAndSwapCallback: the stored value is never compared.
CompareAndSwapUnconditional(old, new, value) ==
    [op |-> IF new # NoValue THEN KeySet(new) ELSE KeyRemove,
     result |-> "Ok", current |-> NoValue]

\* The callback of TreeFile::compare_and_swap: the stored value (NoValue when
\* the key is absent) is compared with old.
CompareAndSwapCallback(old, new, value) ==
    IF value = old
    THEN [op |-> IF new # NoValue THEN KeySet(new) ELSE KeyRemove,
          result |-> "Ok", current |-> NoValue]
    ELSE [op |-> KeySkip, result |-> "Conflict", current |-> value]

\* A faulty RemoveCallback: the key is left in place.
RemoveCallbackSkip(index, value) ==
    [op |-> KeySkip,
     existing |-> IF index # NoSequence /\ value # NoValue
                  THEN [value |-> value, sequence_id |-> index] ELSE NoEntry]

\* The callback of TreeFile::remove: the value and index are kept when both
\* are there, and the key is removed.
RemoveCallback(index, value) ==
    [op |-> KeyRemove,
     existing |-> IF index # NoSequence /\ value # NoValue
                  THEN [value |-> value, sequence_id |-> index] ELSE NoEntry]

\* TreeFile::modify with Operation::Set or Operation::Remove over the keys S,
\* PersistenceMode::Sync.
modify_keys(f, st, S, op) ==
    LET data == ApplyToKeys(st.active.root.data, S, op, 1)
    IN TreeModifierExecute(f, st, VersionedHeader, data, ModifiedBytes(S, op),
                           KRootLen, TRUE)

\* TreeFile::modify with Operation::CompareSwap over one key: the callback
\* decides what happens to the key.
modify_compare_swap(f, st, key, op) ==
    LET data == ApplyKeyOperation(st.active.root.data, key, op)
    IN TreeModifierExecute(f, st, VersionedHeader, data, ModifiedBytes({key}, op),
                           KRootLen, TRUE)

\* TreeFile::write(path, State::default(), context, None)
KOpen ==
    /\ ~kopen
    /\ LET r == initialize_state(KFreshState, kfile, VersionedHeader, FALSE, {})
       IN /\ r.status = "Ok"
          /\ kstate' = r.state
    /\ kopen' = TRUE
    /\ UNCHANGED <<kfile, kwrites, kcompacts, kres>>
    /\ UNCHANGED restK

\* The handle and its State are dropped.
KClose ==
    /\ kopen
    /\ kopen' = FALSE
    /\ kstate' = KFreshState
    /\ UNCHANGED <<kfile, kwrites, kcompacts, kres>>
    /\ UNCHANGED restK

\* TreeFile::set(None, key, value): the result is the new index of the key.
KSet(key, value) ==
    /\ kopen
    /\ kwrites < KMaxWrites
    /\ LET r == modify_keys(kfile, kstate, {key}, KeySet(value))
       IN /\ kfile' = r.file
          /\ kstate' = r.state
          /\ kres' = [KNoRes EXCEPT !.op = "set", !.status = r.status,
                         !.keys = <<key>>, !.new = value,
                         !.index = CurrentIndex(r.state.active.root.data, key),
                         !.before = kstate.published.root.data.by_id]
    /\ kwrites' = kwrites + 1
    /\ UNCHANGED <<kopen, kcompacts>>
    /\ UNCHANGED restK

\* TreeFile::modify with Operation::Set(value) or Operation::Remove over the
\* sorted keys lo..hi.
KModify(lo, hi, op) ==
    /\ kopen
    /\ kwrites < KMaxWrites
    /\ lo < hi
    /\ LET r == modify_keys(kfile, kstate, lo..hi, op)
       IN /\ kfile' = r.file
          /\ kstate' = r.state
          /\ kres' = [KNoRes EXCEPT !.op = "modify", !.status = r.status,
                         !.keys = SortedFrom(lo..hi, 1), !.new = op.value,
                         !.before = kstate.published.root.data.by_id]
    /\ kwrites' = kwrites + 1
    /\ UNCHANGED <<kopen, kcompacts>>
    /\ UNCHANGED restK

\* TreeFile::remove(key, None)
KRemove(key) ==
    /\ kopen
    /\ kwrites < KMaxWrites
    /\ LET data == kstate.active.root.data
           cb == RemoveCallback(CurrentIndex(data, key), CurrentValue(data, key))
           r == modify_compare_swap(kfile, kstate, key, cb.op)
       IN /\ kfile' = r.file
          /\ kstate' = r.state
          /\ kres' = [KNoRes EXCEPT !.op = "remove", !.status = r.status,
                         !.keys = <<key>>, !.value = cb.existing.value,
                         !.index = cb.existing.sequence_id,
                         !.before = kstate.published.root.data.by_id]
    /\ kwrites' = kwrites + 1
    /\ UNCHANGED <<kopen, kcompacts>>
    /\ UNCHANGED restK

\* TreeFile::compare_and_swap(key, old, new, None): the result is Ok(()) or
\* the Conflict the callback stored.
KCompareAndSwap(key, old, new) ==
    /\ kopen
    /\ kwrites < KMaxWrites
    /\ LET data == kstate.active.root.data
           cb == CompareAndSwapCallback(old, new, CurrentValue(data, key))
           r == modify_compare_swap(kfile, kstate, key, cb.op)
       IN /\ kfile' = r.file
          /\ kstate' = r.state
          /\ kres' = [KNoRes EXCEPT !.op = "compare_and_swap",
                         !.status = IF r.status = "Ok" THEN cb.result ELSE r.status,
                         !.keys = <<key>>, !.old = old, !.new = new,
                         !.current = cb.current,
                         !.before = kstate.published.root.data.by_id,
                         !.len = kfile.len]
    /\ kwrites' = kwrites + 1
    /\ UNCHANGED <<kopen, kcompacts>>
    /\ UNCHANGED restK

\* Root::copy_data_to of a versioned root: the chunks the by-id tree refers
\* to are copied; of the by-sequence tree only the entries of the values
\* still stored are kept.
copy_data_to(data) ==
    [data EXCEPT !.by_sequence =
        {e \in @ : e.value # NoValue /\ CurrentIndex(data, e.key) = e.sequence}]

\* TreeCompactor::execute without a transaction manager: the live chunks of
\* the active root are copied into a new file, and the root is saved behind
\* them and synchronized; the write lock is kept for the finisher.
TreeCompactorExecute(f, st, hdr, clen) ==
    LET data == copy_data_to(st.active.root.data)
        a1   == [st.active EXCEPT !.root.data = data]
        s    == save_tree(EmptyFile(f.id + 1), a1, hdr,
                          DataBlockEnd(0, LiveBytes(data)), clen, TRUE)
    IN [file |-> s.file, state |-> [st EXCEPT !.active = s.active]]

\* A faulty TreeCompactionFinisherFinish: the state keeps the id of the file
\* that was replaced.
FinishKeepsFileId(st, new_file_id) == publish(st)

\* TreeCompactionFinisher::finish: the state names the new file and the
\* active state is published.
TreeCompactionFinisherFinish(st, new_file_id) ==
    publish([st EXCEPT !.active.file_id = new_file_id])

\* The values written to the tree that no key refers to any more.
DeadValues(data) ==
    {e \in data.by_sequence :
        e.value # NoValue /\ CurrentIndex(data, e.key) # e.sequence}

\* TreeFile::compact(file_manager, None): the compacted file replaces the
\* file of the handle, and the finisher runs with the id of the new file.
KCompact ==
    /\ kopen
    /\ kcompacts < MaxCompact
    /\ LET c == TreeCompactorExecute(kfile, kstate, VersionedHeader, KRootLen)
       IN /\ kfile' = c.file
          /\ kstate' = TreeCompactionFinisherFinish(c.state, c.file.id)
          /\ kres' = [KNoRes EXCEPT !.op = "compact", !.status = "Ok",
                         !.before = kstate.published.root.data.by_id,
                         !.len = kfile.len,
                         !.dead = (DeadValues(kstate.active.root.data) # {}),
                         !.replaced = kfile,
                         !.read_from = kfile.id,
                         !.root_in = kstate.active.file_id]
    /\ kcompacts' = kcompacts + 1
    /\ UNCHANGED <<kopen, kwrites>>
    /\ UNCHANGED restK

\* The operations a TreeFile makes on its file.
HandleOps == {"get", "get_multiple", "scan", "scan_sequences", "modify",
              "modify_transactional", "commit"}

\* One operation of a TreeFile whose handle is on the file f, on the first
\* keys of the tree: what it returns, and the file and the state after it.
ThroughHandle(f, st, kind, in_transaction) ==
    CASE kind = "get" ->
           [status |-> TreeGetterExecute(f, st, <<1>>, ReadDataEvaluator,
                                         in_transaction).status,
            file |-> f, state |-> st]
      [] kind = "get_multiple" ->
           [status |-> TreeGetterExecute(f, st, <<1, 2>>, ReadDataEvaluator,
                                         in_transaction).status,
            file |-> f, state |-> st]
      [] kind = "scan" ->
           [status |-> TreeScannerExecute(f, st, FullRange, ScanAllNodes,
                                          ReadDataEvaluator, in_transaction).status,
            file |-> f, state |-> st]
      [] kind = "scan_sequences" ->
           [status |-> TreeSequenceScannerExecute(f, st, in_transaction).status,
            file |-> f, state |-> st]
      [] kind = "modify" ->
           TreeModifierExecute(f, st, VersionedHeader,
                               ApplyKeyOperation(st.active.root.data, 1, KeySet("a")),
                               ValueLen("a"), KRootLen, TRUE)
      [] kind = "modify_transactional" ->
           TreeModifierTransactional(f, st, 1, KeySet("a"), 1)
      [] OTHER ->
           TreeFileCommit(f, st, VersionedHeader, KRootLen)

\* A TreeFile that was opened on the file before the compaction replaced it
\* makes one operation.
KStale(kind, in_transaction) ==
    /\ kopen
    /\ kres.op = "compact"
    /\ LET r == ThroughHandle(kres.replaced, kstate, kind, in_transaction)
       IN /\ kstate' = r.state
          /\ kres' = [KNoRes EXCEPT !.op = "stale", !.status = r.status,
                         !.kind = kind, !.replaced = r.file,
                         !.before = kstate.published.root.data.by_id,
                         !.touched = (r.file # kres.replaced \/ r.state # kstate)]
    /\ UNCHANGED <<kfile, kopen, kwrites, kcompacts>>
    /\ UNCHANGED restK

\* copy_chunk for the chunks of the root of st, read through a handle on f:
\* read_chunk is made at the positions the root names, whatever file the
\* handle is on. On the file the root was written to it returns the chunks;
\* a root without stored keys names no chunk. On any other file the bytes at
\* those positions either fail the checks of read_chunk or pass them as
\* chunks of that file.
copy_chunk(f, st) ==
    IF f.id = st.active.file_id \/ StoredKeys(st.active.root.data) = {}
    THEN {"Ok"}
    ELSE {"Err", "Garbage"}

\* What a copy holds whose chunks were read from a file they were not
\* written to: each stored key has the value g.
GarbageData(data, g) ==
    [data EXCEPT !.by_id = [k \in KKeys |->
                              IF k \in StoredKeys(data)
                              THEN [data.by_id[k] EXCEPT !.value = g]
                              ELSE data.by_id[k]]]

\* TreeFile::compact through a TreeFile that was opened before another
\* compaction replaced the file: TreeCompactor::execute copies the chunks of
\* the root of the state through the handle it has; when that goes through,
\* the new file replaces the one at the path and the finisher runs.
KCompactStale ==
    /\ kopen
    /\ kres.op = "compact"
    /\ \E out \in copy_chunk(kres.replaced, kstate), g \in KVals :
          LET st == IF out = "Garbage"
                    THEN [kstate EXCEPT !.active.root.data = GarbageData(@, g)]
                    ELSE kstate
              c  == TreeCompactorExecute(kfile, st, VersionedHeader, KRootLen)
          IN /\ kfile' = IF out \in {"Ok", "Garbage"} THEN c.file ELSE kfile
             /\ kstate' = IF out \in {"Ok", "Garbage"}
                          THEN TreeCompactionFinisherFinish(c.state, c.file.id)
                          ELSE kstate
             /\ kres' = [KNoRes EXCEPT
                           !.op = "compact_stale",
                           !.status = IF out \in {"Ok", "Garbage"} THEN "Ok" ELSE out,
                           !.before = kstate.published.root.data.by_id,
                           !.replaced = kres.replaced,
                           !.read_from = kres.replaced.id,
                           !.root_in = kstate.active.file_id]
    /\ UNCHANGED <<kopen, kwrites, kcompacts>>
    /\ UNCHANGED restK

KWrite ==
    \/ \E key \in KKeys, value \in KVals : KSet(key, value)
    \/ \E lo \in KKeys, hi \in KKeys, op \in {KeySet(v) : v \in KVals} \cup {KeyRemove} :
          KModify(lo, hi, op)
    \/ \E key \in KKeys : KRemove(key)
    \/ \E key \in KKeys, old \in KVals \cup {NoValue}, new \in KVals \cup {NoValue} :
          KCompareAndSwap(key, old, new)

KNext ==
    \/ KOpen
    \/ KClose
    \/ KWrite
    \/ KCompact
    \/ \E kind \in HandleOps, in_transaction \in BOOLEAN : KStale(kind, in_transaction)
    \/ KCompactStale

KvSpec == FInit /\ [][KNext]_vars

\* ------------------------------------------------------------------ ReadSpec

\* The bounds of the ranges asked for: every key, and the empty key.
KBoundKeys == EmptyKey..MaxKey
Bounds == {Unbounded} \cup {Included(k) : k \in KBoundKeys}
                      \cup {Excluded(k) : k \in KBoundKeys}
Ranges == [start : Bounds, end : Bounds]

\* The keys asked for by get_multiple: those a tree may hold, the empty key
\* and a key behind all of them.
KProbeKeys == EmptyKey..(MaxKey + 1)

\* TreeFile::get_range: key_reader pushes every pair it is given.
get_range(f, st, range, in_transaction) ==
    LET r == TreeScannerExecute(f, st, range, ScanAllNodes, ReadDataEvaluator,
                                in_transaction)
        data == IF in_transaction THEN st.active.root.data
                ELSE st.published.root.data
    IN [status |-> r.status, read |-> PairsOf(data, KeysRead(r.events))]

\* TreeFile::get_multiple: key_reader pushes every pair it is given.
get_multiple(f, st, keys, in_transaction) ==
    TreeGetterExecute(f, st, keys, ReadDataEvaluator, in_transaction)

\* node_evaluator of TreeFile::reduce, lines 781-807.  lowest_key is the
\* field of ReduceState, which is the empty key from new() on.
StartIsAfterMax(range, max_key) ==
    CASE range.start.kind = "Unbounded" -> FALSE
      [] range.start.kind = "Excluded" -> range.start.key >= max_key
      [] OTHER -> range.start.key > max_key

StartIsLowest(range, lowest_key) ==
    CASE range.start.kind = "Unbounded" -> TRUE
      [] range.start.kind = "Excluded" -> range.start.key < lowest_key
      [] OTHER -> range.start.key <= lowest_key

EndIncluded(range, max_key) ==
    CASE range.end.kind = "Included" -> range.end.key <= max_key
      [] range.end.kind = "Excluded" -> range.end.key < max_key
      [] OTHER -> TRUE

ReduceNodeEvaluator(range, max_key, lowest_key) ==
    IF StartIsAfterMax(range, max_key) THEN "Stop"
    ELSE IF EndIncluded(range, max_key) /\ StartIsLowest(range, lowest_key)
         THEN "Skip"
    ELSE "ReadData"

\* ReduceState over the events of the scan: push_reduced for every node
\* that was answered Skip, push_index for every key within the range.
RECURSIVE PushedReduced(_, _)
PushedReduced(leaves, events) ==
    IF events = << >> THEN 0
    ELSE (IF events[1].kind = "node" /\ events[1].eval = "Skip"
          THEN ReducedIndexOf(leaves[events[1].at]) ELSE 0)
         + PushedReduced(leaves, Tail(events))

RECURSIVE PushedIndexes(_, _)
PushedIndexes(range, events) ==
    IF events = << >> THEN 0
    ELSE (IF events[1].kind = "key" /\ RangeContains(range, events[1].at)
          THEN 1 ELSE 0)
         + PushedIndexes(range, Tail(events))

\* What the key_evaluator of reduce answers for every key: the index was
\* pushed if the key is within the range, the value is never read.
ReduceKeyEvaluator == [k \in KKeys |-> "Skip"]

\* TreeFile::reduce.  DepthState::finish reduces the indexes pushed, if any,
\* into one more reduced index, and answers None when there is none at all,
\* else their rereduce, whose alive_keys is the sum.
reduce(f, st, range, in_transaction) ==
    LET data == IF in_transaction THEN st.active.root.data
                ELSE st.published.root.data
        leaves == Leaves(data)
        nodeEval == IF Len(leaves) = 1 THEN <<"ReadData">>
                    ELSE [i \in 1..Len(leaves) |->
                            ReduceNodeEvaluator(range, MaxKeyOf(leaves[i]), EmptyKey)]
        r == TreeScannerExecute(f, st, range, nodeEval, ReduceKeyEvaluator,
                                in_transaction)
        nodes == {r.events[e].at : e \in {x \in 1..Len(r.events) :
                     r.events[x].kind = "node" /\ r.events[x].eval = "Skip"}}
        indexes == PushedIndexes(range, r.events)
    IN [status |-> r.status,
        some |-> nodes # {} \/ indexes > 0,
        alive_keys |-> PushedReduced(leaves, r.events) + indexes,
        pushed |-> nodes]

\* The tree after one modification that stored vals[k] for every key k that
\* has one.
RECURSIVE StoreFrom(_, _, _)
StoreFrom(data, vals, k) ==
    IF k > MaxKey THEN data
    ELSE StoreFrom(IF vals[k] = NoValue THEN data
                   ELSE ApplyKeyOperation(data, k, KeySet(vals[k])),
                   vals, k + 1)

\* A TreeFile on a new file, after one modification of any choice of keys.
ReadInit ==
    /\ FIdle
    /\ RIdle
    /\ NIdle
    /\ PIdle
    /\ TIdle
    /\ OIdle
    /\ \E vals \in [KKeys -> KVals \cup {NoValue}] :
          LET o == initialize_state(KFreshState, EmptyFile(1), VersionedHeader,
                                    FALSE, {})
              data == StoreFrom(KEmptyTree, vals, 1)
              r == TreeModifierExecute(EmptyFile(1), o.state, VersionedHeader, data,
                                       LiveBytes(data), KRootLen, TRUE)
          IN /\ kfile = r.file
             /\ kstate = r.state
    /\ kopen = TRUE
    /\ kwrites = 1
    /\ kcompacts = 0
    /\ kres = KNoRes
    /\ CIdle

RReduce(range) ==
    /\ kopen
    /\ kres.op = "none"
    /\ LET r == reduce(kfile, kstate, range, FALSE)
       IN kres' = [KNoRes EXCEPT !.op = "reduce", !.status = r.status,
                     !.range = range, !.some = r.some,
                     !.alive_keys = r.alive_keys, !.pushed = r.pushed]
    /\ UNCHANGED <<kfile, kstate, kopen, kwrites, kcompacts>>
    /\ UNCHANGED restK

RGetRange(range) ==
    /\ kopen
    /\ kres.op = "none"
    /\ LET r == get_range(kfile, kstate, range, FALSE)
       IN kres' = [KNoRes EXCEPT !.op = "get_range", !.status = r.status,
                     !.range = range, !.read = r.read]
    /\ UNCHANGED <<kfile, kstate, kopen, kwrites, kcompacts>>
    /\ UNCHANGED restK

RGetMultiple(keys) ==
    /\ kopen
    /\ kres.op = "none"
    /\ LET r == get_multiple(kfile, kstate, keys, FALSE)
       IN kres' = [KNoRes EXCEPT !.op = "get_multiple", !.status = r.status,
                     !.keys = keys, !.read = r.read]
    /\ UNCHANGED <<kfile, kstate, kopen, kwrites, kcompacts>>
    /\ UNCHANGED restK

\* A read changes nothing in the tree: each one is made on the tree as it
\* was stored.
ReadNext ==
    \/ \E range \in Ranges : RReduce(range)
    \/ \E range \in Ranges : RGetRange(range)
    \/ \E S \in SUBSET KProbeKeys : RGetMultiple(SortedFrom(S, EmptyKey))

ReadSpec == ReadInit /\ [][ReadNext]_vars

\* ------------------------------------------------------------------ CompactSpec

\* A faulty catch_compaction_and_retry: TreeCompacted is returned like any
\* other error.
ReturnCompactionError(status) == "Err"

\* catch_compaction_and_retry: what follows a result that is not Ok.
catch_compaction_and_retry(status) ==
    IF status = "TreeCompacted" THEN "continue" ELSE "Err"

\* Tree::count: the number of keys of the root behind State::lock, which is
\* the active one.
count(st) == Cardinality(StoredKeys(st.active.root.data))

\* Tree::current_sequence_id: the sequence of the root behind State::lock.
current_sequence_id(st) == st.active.root.data.sequence

\* The file a handle is on: the file at the path of the tree when the handle
\* was opened on it, a file that has been replaced otherwise.
HandleFile(h) == [cfile EXCEPT !.id = h]

\* What a write through a handle leaves at the path of the tree.
Written(h, f) == IF h = cfile.id THEN f ELSE cfile

\* The steps of one worker: (set, remove, set, get) on its key.
WriteOps == <<"set1", "remove", "set2">>
OpAfter(op) == CASE op = "set1" -> "remove" [] op = "remove" -> "set2" [] OTHER -> "get"

\* compact_test before the threads are spawned: the tree is opened on a new
\* file and tree.set("foo", "bar") has run in its own transaction.
CInit ==
    /\ FIdle
    /\ RIdle
    /\ KIdle
    /\ NIdle
    /\ PIdle
    /\ TIdle
    /\ OIdle
    /\ LET o == initialize_state(KFreshState, EmptyFile(1), VersionedHeader, TRUE, {})
           m == TreeModifierTransactional(EmptyFile(1), o.state, FooKey, KeySet("b"), 1)
           w == TreeFileCommit(m.file, m.state, VersionedHeader, KRootLen)
       IN /\ cfile = w.file
          /\ cstate = publish(w.state)
    /\ cnew = EmptyFile(1)
    /\ clock = 0
    /\ cnextid = 2
    /\ cruns = 0
    /\ cthreads = [t \in Threads |->
                     [NoThread EXCEPT !.pc = IF t = Compactor THEN "count" ELSE "set1"]]

\* Tree::begin_transaction: Roots::transaction waits for the name of the
\* tree, takes a transaction id and opens the tree for writing.
WBegin(w) ==
    /\ cthreads[w].pc \in {"set1", "remove", "set2"}
    /\ clock = 0
    /\ clock' = w
    /\ cnextid' = cnextid + 1
    /\ cthreads' = [cthreads EXCEPT ![w].pc = "op_" \o @,
                                    ![w].handle = cfile.id,
                                    ![w].txn = cnextid]
    /\ UNCHANGED <<cfile, cstate, cnew, cruns>>
    /\ UNCHANGED restC

\* TransactionTree::set / TransactionTree::remove on the key of the worker.
WOp(w, op) ==
    /\ cthreads[w].pc = "op_" \o op
    /\ LET data == cstate.active.root.data
           key == WorkerKey(w)
           cb == RemoveCallback(CurrentIndex(data, key), CurrentValue(data, key))
           kop == IF op = "remove" THEN cb.op ELSE KeySet(WorkerValue(w))
           r == TreeModifierTransactional(HandleFile(cthreads[w].handle), cstate,
                                          key, kop, cthreads[w].txn)
       IN /\ cfile' = Written(cthreads[w].handle, r.file)
          /\ cstate' = r.state
          /\ cthreads' = [cthreads EXCEPT
                ![w].pc = IF r.status = "Ok" THEN "commit_" \o op ELSE "failed",
                ![w].failed = (r.status # "Ok"),
                ![w].removed = IF op = "remove" /\ r.status = "Ok"
                               THEN cb.existing.value ELSE @]
    /\ UNCHANGED <<cnew, clock, cnextid, cruns>>
    /\ UNCHANGED restC

\* ExecutingTransaction::commit, first part: the tree is committed to its
\* file.
WCommit(w, op) ==
    /\ cthreads[w].pc = "commit_" \o op
    /\ LET r == TreeFileCommit(HandleFile(cthreads[w].handle), cstate,
                               VersionedHeader, KRootLen)
       IN /\ cfile' = Written(cthreads[w].handle, r.file)
          /\ cstate' = r.state
          /\ cthreads' = [cthreads EXCEPT
                ![w].pc = IF r.status = "Ok" THEN "publish_" \o op ELSE "failed",
                ![w].failed = (r.status # "Ok")]
    /\ UNCHANGED <<cnew, clock, cnextid, cruns>>
    /\ UNCHANGED restC

\* ExecutingTransaction::commit, second part: the state is published and the
\* name of the tree released.
WPublish(w, op) ==
    /\ cthreads[w].pc = "publish_" \o op
    /\ cstate' = publish(cstate)
    /\ clock' = 0
    /\ cthreads' = [cthreads EXCEPT ![w].pc = OpAfter(op), ![w].handle = NoFile]
    /\ UNCHANGED <<cfile, cnew, cnextid, cruns>>
    /\ UNCHANGED restC

\* Tree::get, open_for_read: a handle on the file at the path of the tree.
WGetOpen(w) ==
    /\ cthreads[w].pc = "get"
    /\ cthreads' = [cthreads EXCEPT ![w].pc = "read", ![w].handle = cfile.id]
    /\ UNCHANGED <<cfile, cstate, cnew, clock, cnextid, cruns>>
    /\ UNCHANGED restC

\* Tree::get, tree.get(key, false) inside catch_compaction_and_retry.
WGetRead(w) ==
    /\ cthreads[w].pc = "read"
    /\ \E r \in {get(HandleFile(cthreads[w].handle), cstate, WorkerKey(w), FALSE)} :
          IF r \in KVals \cup {NoValue}
          THEN cthreads' = [cthreads EXCEPT ![w].pc = "done", ![w].got = r,
                                            ![w].handle = NoFile]
          ELSE IF catch_compaction_and_retry(r) = "continue"
          THEN cthreads' = [cthreads EXCEPT ![w].pc = "get", ![w].retried = TRUE,
                                            ![w].handle = NoFile]
          ELSE cthreads' = [cthreads EXCEPT ![w].pc = "failed", ![w].failed = TRUE]
    /\ UNCHANGED <<cfile, cstate, cnew, clock, cnextid, cruns>>
    /\ UNCHANGED restC

\* The loop of the compacting thread: while tree.count() is below the number
\* of keys the workers write.
CCount ==
    /\ cthreads[Compactor].pc = "count"
    /\ cthreads' = [cthreads EXCEPT
          ![Compactor].pc = IF count(cstate) < NumWorkers /\ cruns < MaxCompactRuns
                            THEN "open" ELSE "done",
          ![Compactor].asked = "count",
          ![Compactor].answer = count(cstate),
          ![Compactor].visible = Cardinality(StoredKeys(cstate.published.root.data))]
    /\ UNCHANGED <<cfile, cstate, cnew, clock, cnextid, cruns>>
    /\ UNCHANGED restC

\* tree.current_sequence_id() called by the compacting thread between two
\* rounds of its loop.
CCurrentSequenceId ==
    /\ cthreads[Compactor].pc = "count"
    /\ cthreads[Compactor].asked # "current_sequence_id"
    /\ cthreads' = [cthreads EXCEPT
          ![Compactor].asked = "current_sequence_id",
          ![Compactor].answer = current_sequence_id(cstate),
          ![Compactor].visible = cstate.published.root.data.sequence]
    /\ UNCHANGED <<cfile, cstate, cnew, clock, cnextid, cruns>>
    /\ UNCHANGED restC

\* Tree::compact, open_for_read.
COpen ==
    /\ cthreads[Compactor].pc = "open"
    /\ cthreads' = [cthreads EXCEPT ![Compactor].pc = "execute",
                                    ![Compactor].handle = cfile.id]
    /\ UNCHANGED <<cfile, cstate, cnew, clock, cnextid, cruns>>
    /\ UNCHANGED restC

\* TreeCompactor::execute with the transaction manager: new_transaction waits
\* for the name of the tree; the live data is copied and the root saved in
\* the new file; the state stays locked.
CExecute ==
    /\ cthreads[Compactor].pc = "execute"
    /\ clock = 0
    /\ clock' = Compactor
    /\ cnextid' = cnextid + 1
    /\ LET c == TreeCompactorExecute(HandleFile(cthreads[Compactor].handle), cstate,
                                     VersionedHeader, KRootLen)
       IN /\ cnew' = c.file
          /\ cstate' = c.state
    /\ cthreads' = [cthreads EXCEPT ![Compactor].pc = "replace",
                                    ![Compactor].txn = cnextid]
    /\ UNCHANGED <<cfile, cruns>>
    /\ UNCHANGED restC

\* replace_with: the new file takes the place of the tree file.
CReplace ==
    /\ cthreads[Compactor].pc = "replace"
    /\ cfile' = cnew
    /\ cthreads' = [cthreads EXCEPT ![Compactor].pc = "finish"]
    /\ UNCHANGED <<cstate, cnew, clock, cnextid, cruns>>
    /\ UNCHANGED restC

\* TreeCompactionFinisher::finish, and the drop of the finisher with its
\* transaction.
CFinish ==
    /\ cthreads[Compactor].pc = "finish"
    /\ cstate' = TreeCompactionFinisherFinish(cstate, cfile.id)
    /\ clock' = 0
    /\ cruns' = cruns + 1
    /\ cthreads' = [cthreads EXCEPT ![Compactor].pc = "count",
                                    ![Compactor].handle = NoFile]
    /\ UNCHANGED <<cfile, cnew, cnextid>>
    /\ UNCHANGED restC

WorkerStep(w) ==
    \/ WBegin(w)
    \/ \E i \in 1..Len(WriteOps) : WOp(w, WriteOps[i])
    \/ \E i \in 1..Len(WriteOps) : WCommit(w, WriteOps[i])
    \/ \E i \in 1..Len(WriteOps) : WPublish(w, WriteOps[i])
    \/ WGetOpen(w)
    \/ WGetRead(w)

CompactorStep ==
    \/ CCount
    \/ CCurrentSequenceId
    \/ COpen
    \/ CExecute
    \/ CReplace
    \/ CFinish

CNext ==
    \/ \E w \in Workers : WorkerStep(w)
    \/ CompactorStep

CompactSpec == CInit /\ [][CNext]_vars

\* The step in which the read of worker w returns, whatever it returns.
\* WGetRead(w) is the only step of CNext of this shape, and it is enabled
\* whenever the worker is at its read.
WReadReturns(w) ==
    /\ cthreads[w].pc = "read"
    /\ \E pc \in {"done", "get", "failed"}, got \in KVals \cup {NoValue},
          retried \in BOOLEAN, failed \in BOOLEAN,
          handle \in {NoFile, cthreads[w].handle} :
          cthreads' = [cthreads EXCEPT ![w].pc = pc, ![w].got = got,
                                       ![w].retried = retried,
                                       ![w].failed = failed,
                                       ![w].handle = handle]
    /\ UNCHANGED <<cfile, cstate, cnew, clock, cnextid, cruns>>
    /\ UNCHANGED restC

\* The threads of compact_test are threads of the operating system: a thread
\* that is reading keeps being scheduled, and so does the compacting thread
\* once its file is in the place of the tree file.
CompactFairSpec ==
    /\ CompactSpec
    /\ \A w \in Workers : WF_vars(WGetOpen(w)) /\ WF_vars(WReadReturns(w))
    /\ WF_vars(CFinish)

\* ------------------------------------------------------------------ NameSpec

\* The longest name of a tree that is not the reserved one, and the most
\* tree files the directory holds at once.
MaxNameLen == 2
MaxTrees == 1

\* The bytes a name is made of: 'a', 'Z', '0', '-', '.', '_', and one that no
\* name may hold, '='.
NameBytes == {97, 90, 48, 45, 46, 95, 61}

\* "_transactions", the name of the transaction log
TransactionsName == <<95, 116, 114, 97, 110, 115, 97, 99, 116, 105, 111, 110, 115>>

\* The names the calls are made with.
Names ==
    UNION {[1..n -> NameBytes] : n \in 0..MaxNameLen} \cup {TransactionsName}

\* matches!(c as char, 'a'..='z' | 'A'..='Z' | '0'..='9' | '-' | '.' | '_')
NameByteIsValid(c) ==
    \/ c \in 97..122
    \/ c \in 65..90
    \/ c \in 48..57
    \/ c = 45
    \/ c = 46
    \/ c = 95

\* check_name(name): Ok(()) or InvalidTreeName
check_name(name) ==
    IF /\ name # TransactionsName
       /\ \A i \in 1..Len(name) : NameByteIsValid(name[i])
    THEN "Ok"
    ELSE "InvalidTreeName"

\* Roots::tree(root): the name is checked, the file is created when the path
\* does not exist, and the state of the tree enters tree_states.
NTree(name) ==
    /\ Cardinality(ndisk \cup {name}) <= MaxTrees
    /\ LET status == check_name(name)
       IN  /\ ndisk' = IF status = "Ok" THEN ndisk \cup {name} ELSE ndisk
           /\ nstates' = IF status = "Ok" THEN nstates \cup {name} ELSE nstates
           /\ nres' = [NNoRes EXCEPT !.op = "tree", !.name = name,
                                     !.status = status,
                                     !.existed = (name \in ndisk)]
    /\ UNCHANGED restN

\* Roots::transaction(&[root]) and the drop of the transaction it returns:
\* the name is checked, the state of the tree enters tree_states and the
\* file is opened for writing, which creates it.
NTransaction(name) ==
    /\ Cardinality(ndisk \cup {name}) <= MaxTrees
    /\ LET status == check_name(name)
       IN  /\ ndisk' = IF status = "Ok" THEN ndisk \cup {name} ELSE ndisk
           /\ nstates' = IF status = "Ok" THEN nstates \cup {name} ELSE nstates
           /\ nres' = [NNoRes EXCEPT !.op = "transaction", !.name = name,
                                     !.status = status,
                                     !.existed = (name \in ndisk)]
    /\ UNCHANGED restN

\* The file manager's delete(path): the file is gone afterwards.
FileManagerDelete(disk, name) == disk \ {name}

\* Roots::delete_tree(name): the file is deleted and the name leaves
\* tree_states; the call returns whether the name was in tree_states.
NDeleteTree(name) ==
    /\ ndisk' = FileManagerDelete(ndisk, name)
    /\ nstates' = nstates \ {name}
    /\ nres' = [NNoRes EXCEPT !.op = "delete_tree", !.name = name,
                              !.status = "Ok",
                              !.deleted = (name \in nstates),
                              !.existed = (name \in ndisk)]
    /\ UNCHANGED restN

\* The Roots is dropped and Roots::open is called on the same directory:
\* tree_states starts empty, the files stay.
NReopen ==
    /\ nstates # {}
    /\ nstates' = {}
    /\ nres' = [NNoRes EXCEPT !.op = "open"]
    /\ UNCHANGED ndisk
    /\ UNCHANGED restN

NNext ==
    \/ \E name \in Names : NTree(name)
    \/ \E name \in Names : NTransaction(name)
    \/ \E name \in Names : NDeleteTree(name)
    \/ NReopen

NameSpec == FInit /\ [][NNext]_vars

\* ------------------------------------------------------------------ PagedSpec

\* The greatest position a PagedWriter is started at: two pages, as in the
\* test paged_writer.
MaxPosition == 512

\* "Nbr", and the "i" that ends the magic code of a file
Nbr == <<78, 98, 114>>
Nbri == Nbr \o <<105>>

\* The lengths of the chunks written.
PagedChunkLens == {1, 128}

\* A writer that writes its header where it stands.
no_padding(position) == 0

\* let padding_needed = PAGE_SIZE - (writer.position % PAGE_SIZE)
padding_needed(position) == PAGE_SIZE - (position % PAGE_SIZE)

\* PagedWriter::new(header, file, vault, cache, position): the bytes the new
\* writer has written.  With a header: padding_needed + 4 bytes, all of them
\* the header byte, of which the three before the last are replaced by "Nbr".
\* A writer that then stands at 0 writes the magic code "Nbri".
PagedWriterNew(with_header, header, position) ==
    LET n == padding_needed(position) + 4
        padding_and_header ==
            IF with_header
            THEN [i \in 1..n |-> IF i \in (n - 3)..(n - 1) THEN Nbr[i - (n - 4)]
                                 ELSE header]
            ELSE << >>
    IN IF position + Len(padding_and_header) = 0
       THEN padding_and_header \o Nbri
       ELSE padding_and_header

\* A file of any length up to two pages is about to be written to.
PInit ==
    /\ FIdle
    /\ RIdle
    /\ KIdle
    /\ CIdle
    /\ NIdle
    /\ TIdle
    /\ OIdle
    /\ \E position \in 0..MaxPosition, header \in HeaderKinds, with_header \in BOOLEAN :
          pw = [PNoWriter EXCEPT !.pc = "start", !.position = position,
                                 !.header = header, !.with_header = with_header]

\* PagedWriter::new
PNew ==
    /\ pw.pc = "start"
    /\ pw' = [pw EXCEPT !.pc = "new",
                        !.written = PagedWriterNew(pw.with_header, pw.header,
                                                   pw.position)]
    /\ UNCHANGED restP

\* PagedWriter::write_chunk(contents): the chunk is at current_position(),
\* and the writer moves by the chunk header and the contents.
PWriteChunk(length) ==
    /\ pw.pc = "new"
    /\ pw' = [pw EXCEPT !.pc = "chunk",
                        !.chunk_at = pw.position + Len(pw.written),
                        !.length = length]
    /\ UNCHANGED restP

PNext ==
    \/ PNew
    \/ \E length \in PagedChunkLens : PWriteChunk(length)

PagedSpec == PInit /\ [][PNext]_vars

\* ---------------------------------------------------------------------------
\* PoolSpec: calls of ThreadPool::commit_trees that share one pool
\* ---------------------------------------------------------------------------

\* The largest maximum_threads a pool is created with, and the most trees a
\* call commits.
MaxThreads == 2
MaxTreeCount == 3

\* thread_count is an AtomicU16.
U16 == 65536

Min(a, b) == IF a <= b THEN a ELSE b

\* ThreadPool::new: any maximum_threads is accepted; no thread, an empty queue.
ThreadPoolNew(maximum_threads) ==
    [maximum_threads |-> maximum_threads, thread_count |-> 0, spawned |-> 0,
     queue |-> << >>, completions |-> [c \in Callers |-> << >>]]

TInit ==
    /\ FIdle /\ RIdle /\ KIdle /\ CIdle /\ NIdle /\ PIdle /\ OIdle
    /\ \E maximum_threads \in 0..MaxThreads : pool = ThreadPoolNew(maximum_threads)
    /\ callers = [c \in Callers |-> NoCall]

\* A faulty desired_threads: one thread per tree, whatever the pool allows.
thread_per_tree(tree_count, maximum_threads) == tree_count

\* commit_trees: desired_threads = tree_count.min(self.maximum_threads)
desired_threads(tree_count, maximum_threads) == Min(tree_count, maximum_threads)

\* commit_trees with two or more trees: every tree is pushed on the queue.
TCommitTrees(c, tree_count) ==
    /\ callers[c].pc = "idle"
    /\ pool' = [pool EXCEPT !.queue = @ \o [i \in 1..tree_count |-> c]]
    /\ callers' = [callers EXCEPT ![c] = [@ EXCEPT !.pc = "load",
                                                    !.tree_count = tree_count]]
    /\ UNCHANGED restT

\* The scaling loop: self.thread_count.load, and the break.
TLoad(c) ==
    /\ callers[c].pc = "load"
    /\ callers' = [callers EXCEPT ![c] =
          [@ EXCEPT !.thread_count = pool.thread_count,
                    !.pc = IF pool.thread_count
                              >= desired_threads(callers[c].tree_count, pool.maximum_threads)
                           THEN "wait" ELSE "exchange"]]
    /\ UNCHANGED <<pool, restT>>

\* The scaling loop: compare_exchange(thread_count, thread_count + 1), and the
\* spawn of a thread when it succeeds.
TCompareExchange(c) ==
    /\ callers[c].pc = "exchange"
    /\ IF pool.thread_count = callers[c].thread_count
       THEN /\ pool' = [pool EXCEPT !.thread_count = (callers[c].thread_count + 1) % U16,
                                    !.spawned = @ + 1]
            /\ callers' = [callers EXCEPT ![c] = [@ EXCEPT !.pc = "load",
                                                            !.spawned = @ + 1]]
       ELSE /\ callers' = [callers EXCEPT ![c] = [@ EXCEPT !.pc = "load"]]
            /\ UNCHANGED pool
    /\ UNCHANGED restT

\* transaction_commit_thread: one turn of the loop of a spawned thread. The
\* tree's commit succeeds or fails, and the result is sent to the caller.
transaction_commit_thread(p, ok) ==
    [p EXCEPT !.queue = Tail(@),
              !.completions[Head(p.queue)] = Append(@, ok)]

TThreadCommit(ok) ==
    /\ pool.spawned > 0
    /\ pool.queue # << >>
    /\ pool' = transaction_commit_thread(pool, ok)
    /\ UNCHANGED <<callers, restT>>

\* The wait for results: completion_receiver.recv()??, tree_count times.
TRecv(c) ==
    /\ callers[c].pc = "wait"
    /\ callers[c].results < callers[c].tree_count
    /\ pool.completions[c] # << >>
    /\ pool' = [pool EXCEPT !.completions[c] = Tail(@)]
    /\ callers' = [callers EXCEPT ![c] =
          IF Head(pool.completions[c])
          THEN [@ EXCEPT !.results = @ + 1]
          ELSE [@ EXCEPT !.pc = "returned", !.returned = "Err"]]
    /\ UNCHANGED restT

\* Ok(results) once every result is in.
TReturn(c) ==
    /\ callers[c].pc = "wait"
    /\ callers[c].results = callers[c].tree_count
    /\ callers' = [callers EXCEPT ![c] = [@ EXCEPT !.pc = "returned", !.returned = "Ok"]]
    /\ UNCHANGED <<pool, restT>>

TCallerStep(c) == TLoad(c) \/ TCompareExchange(c) \/ TRecv(c) \/ TReturn(c)

TNext ==
    \/ \E c \in Callers, tree_count \in 2..MaxTreeCount : TCommitTrees(c, tree_count)
    \/ \E c \in Callers : TLoad(c)
    \/ \E c \in Callers : TCompareExchange(c)
    \/ \E ok \in BOOLEAN : TThreadCommit(ok)
    \/ \E c \in Callers : TRecv(c)
    \/ \E c \in Callers : TReturn(c)

PoolSpec == TInit /\ [][TNext]_vars

\* Every call that has started keeps running, and every spawned thread keeps
\* taking work from the queue.
PoolFairSpec ==
    /\ PoolSpec
    /\ \A c \in Callers : WF_vars(TCallerStep(c))
    /\ WF_vars(\E ok \in BOOLEAN : TThreadCommit(ok))

\* ------------------------------------------------------------------ transactions: properties

InsideGet(t) == TreeGetter(states[t], "k", TRUE)
OutsideGet(t) == TreeGetter(states[t], "k", FALSE)

\* C1: while a transaction that has set the key of a tree is open, a get
\* inside it returns the value it set and a get outside returns the value
\* published when it began; while its commit runs an outside get returns one
\* of the two; once commit has returned an outside get returns the new value
\* (until another transaction or a compaction takes the tree).
C1_Isolation ==
    \A id \in TxIds : \A t \in tx[id].trees :
        tx[id].last[t] # Unset =>
            /\ tx[id].pc = "open"
                  => /\ InsideGet(t) = tx[id].last[t]
                     /\ OutsideGet(t) = tx[id].base[t]["k"]
            /\ tx[id].pc \in {"committing", "logged"}
                  => OutsideGet(t) \in {tx[id].base[t]["k"], tx[id].last[t]}
            /\ (tx[id].pc = "done" /\ owner[t] = id)
                  => OutsideGet(t) = tx[id].last[t]

\* C1 witness: a transaction has replaced a committed value and is still
\* open: inside and outside reads differ.
C1_Witness ==
    \E id \in TxIds : \E t \in tx[id].trees :
        /\ tx[id].pc = "open"
        /\ tx[id].last[t] # Unset
        /\ tx[id].base[t]["k"] # NoValue
        /\ InsideGet(t) = tx[id].last[t]
        /\ OutsideGet(t) = tx[id].base[t]["k"]
        /\ InsideGet(t) # OutsideGet(t)

\* C2: after a transaction was rolled back or dropped, the active root of each
\* of its trees equals the published root, readers outside see the value
\* published before it, and so does the next transaction over the tree.
C2_DropIsRollback ==
    \A id \in TxIds : \A t \in tx[id].trees :
        tx[id].pc = "rolledback" =>
            /\ owner[t] = id
                  => /\ states[t].active.root = states[t].published.root
                     /\ OutsideGet(t) = tx[id].base[t]["k"]
            /\ \A id2 \in TxIds :
                  (/\ tx[id2].pc = "open"
                   /\ t \in tx[id2].trees
                   /\ tx[id2].prev[t] = id
                   /\ tx[id2].last[t] = Unset)
                  => /\ InsideGet(t) = tx[id].base[t]["k"]
                     /\ OutsideGet(t) = tx[id].base[t]["k"]

\* C2 witness: a transaction that had set a key was rolled back and the next
\* transaction over the same tree is open.
C2_Witness ==
    \E id \in TxIds, id2 \in TxIds : \E t \in tx[id].trees :
        /\ tx[id].pc = "rolledback"
        /\ tx[id].last[t] # Unset
        /\ tx[id2].pc = "open"
        /\ t \in tx[id2].trees
        /\ tx[id2].prev[t] = id
        /\ InsideGet(t) = tx[id].base[t]["k"]

\* The file of t holds a synchronized root written under transaction id.
RootSynced(t, id) ==
    \E i \in 1..Len(files[t].roots) :
        /\ files[t].roots[i].txn = id
        /\ RootEnd(files[t].roots[i]) <= files[t].synced

\* C3: when commit has published the state of any tree, every tree of the
\* transaction has been committed (its root, when it changed, written and
\* synchronized) and the log has the transaction; the names stay locked from
\* the call of commit until every state is published.
C3_CommitOrdering ==
    \A id \in TxIds :
        /\ (tx[id].pubd # {} /\ tx[id].pc # "crashed")
              => /\ tx[id].written = tx[id].trees
                 /\ id \in log
                 /\ \A t \in tx[id].trees :
                       (tx[id].pc = "logged" /\ tx[id].last[t] # Unset)
                          => RootSynced(t, id)
        /\ tx[id].pc \in {"committing", "logged"} => tx[id].trees \subseteq locks
        /\ tx[id].pc = "done" => tx[id].pubd = tx[id].trees

\* C3 witness: a transaction over two trees is logged, one state is
\* published, the other not yet, and both names are still locked.
C3_Witness ==
    \E id \in TxIds :
        /\ tx[id].pc = "logged"
        /\ Cardinality(tx[id].trees) = 2
        /\ Cardinality(tx[id].pubd) = 1
        /\ \A t \in tx[id].trees : tx[id].last[t] # Unset
        /\ tx[id].trees \subseteq locks

\* C4 (as claimed): after commit has failed, the names are unlocked, the
\* active root of each tree of the transaction equals the published root,
\* readers see the value published before it, and so does the next
\* transaction over the tree.
C4_CommitFailureAborts ==
    \A id \in TxIds : \A t \in tx[id].trees :
        tx[id].pc = "failed" =>
            /\ owner[t] = id
                  => /\ t \notin locks
                     /\ states[t].active.root.data = states[t].published.root.data
                     /\ OutsideGet(t) = tx[id].base[t]["k"]
            /\ \A id2 \in TxIds :
                  (/\ tx[id2].pc = "open"
                   /\ t \in tx[id2].trees
                   /\ tx[id2].prev[t] = id
                   /\ tx[id2].last[t] = Unset)
                  => InsideGet(t) = tx[id].base[t]["k"]

\* C5 (as claimed): the published root of every tree carries transaction id 0
\* or one the log has recorded.
C5_PublishedRootCommitted ==
    \A t \in TreeNames :
        states[t].published.root.txn = 0 \/ states[t].published.root.txn \in log

\* C6 (as claimed): after the process died in the commit of a transaction
\* over several trees, with the new root of some tree in its file and the log
\* not yet written, every tree of the transaction opens at the contents it
\* had before.
C6_CrashAtomicity ==
    \A id \in TxIds :
        (/\ tx[id].pc = "crashed"
         /\ tx[id].torn
         /\ Cardinality(tx[id].trees) > 1
         /\ \E w \in tx[id].written : RootSynced(w, id))
        => \A t \in tx[id].trees :
              (openres[t] # "None" /\ owner[t] = 0)
                 => /\ openres[t] = "Ok"
                    /\ OutsideGet(t) = tx[id].base[t]["k"]

\* ------------------------------------------------------------------ root discovery: properties

\* The handle was opened for the tree type that wrote the file.
SameTreeType == \A i \in 1..Len(tfile.roots) : tfile.roots[i].hdr = thdr

\* The last page header of the file that reads as a root header.
LastHeaders == {i \in 1..Len(tfile.roots) :
                   tfile.roots[i].at + PAGE_HEADER_LEN <= tfile.len}

\* Pages from the first one read by discovery down to the page at offset p.
PagesDownTo(p) == ((InitialBlockStart(tfile.len) - p) \div PAGE_SIZE) + 1

\* C7 (as claimed): after a file that holds a committed root was cut anywhere
\* between the end of that root and the end of the file, opening it with the
\* transaction log succeeds and publishes the contents of the last committed
\* root.
C7_CrashSafeDiscovery ==
    (tcut /\ topen # "Closed" /\ tuselog /\ SameTreeType
        /\ AcceptableRoots(tfile, TRUE, flog) # {})
        => /\ topen = "Ok"
           /\ tstate.published.root.init
           /\ tstate.published.root.data = LastAcceptableData(tfile, TRUE, flog)

\* C8: after any sequence of Sync/Flush modifications, a handle opened on the
\* file with a fresh state has published exactly the last root written, found
\* at the offset it was written to, whatever the file length.
C8_RootRoundTrip ==
    (tplain /\ topen # "Closed" /\ SameTreeType)
        => /\ topen = "Ok"
           /\ tstate.published.root.init
           /\ tstate.published.root.data = tlast
           /\ tstate.published.root.txn = 0
           /\ tstate.published.position = tfile.len
           /\ tscan.status = "Accept"
                 => tscan.at = tfile.roots[Len(tfile.roots)].at

\* C8 witness: two modifications were saved, the file ends fewer than 4 bytes
\* past a page boundary, and a fresh handle found the second root one page
\* before the last boundary.
C8_Witness ==
    /\ tplain
    /\ Len(tfile.roots) = 2
    /\ tfile.len % PAGE_SIZE < PAGE_HEADER_LEN
    /\ tscan.status = "Accept"
    /\ tscan.at = tfile.roots[2].at
    /\ tlast # EmptyData
    /\ tfile.roots[1].data # tlast
    /\ tstate.published.root.data = tlast

\* C9 (as claimed): discovery that reaches offset 0 without accepting a root
\* makes the open fail with DataIntegrity.
C9_NoRootFails ==
    tscan.status \in {"NoRoot", "Unpublished"} => topen = "DataIntegrity"

\* C9 (amended): discovery that reaches offset 0 without accepting a root
\* makes the open succeed with an empty default root; when the page at offset
\* 0 holds no root header that root is published and the write position is
\* the file length.
C9_NoRootOpensEmpty ==
    tscan.status \in {"NoRoot", "Unpublished"}
        => /\ topen = "Ok"
           /\ tstate.active.root = [DefaultRoot EXCEPT !.init = TRUE]
           /\ tscan.status = "NoRoot"
                 => /\ tstate.published = tstate.active
                    /\ tstate.active.position = tfile.len
           /\ tscan.status = "Unpublished"
                 => ~tstate.published.root.init

\* C9 witness: a file of more than one page that holds a root which the log
\* rejects was searched down to offset 0.
C9_Witness ==
    /\ tscan.status = "NoRoot"
    /\ tfile.len > PAGE_SIZE
    /\ Len(tfile.roots) > 0
    /\ tscan.probes = PagesDownTo(0)
    /\ tstate.published.root.init
    /\ tstate.published.position = tfile.len

\* C10: when the last root header of the file carries the other tree type's
\* kind, the open fails with DataIntegrity at that page, nothing is published,
\* and no earlier page is read.
C10_WrongTreeType ==
    (topen # "Closed" /\ LastHeaders # {} /\ tfile.len > PAGE_HEADER_LEN
        /\ tfile.roots[SetMax(LastHeaders)].hdr # thdr)
        => /\ topen = "DataIntegrity"
           /\ tscan.status = "DataIntegrity"
           /\ tscan.at = tfile.roots[SetMax(LastHeaders)].at
           /\ tscan.probes = PagesDownTo(tscan.at)
           /\ ~tstate.published.root.init
           /\ ~tstate.active.root.init

\* C10 witness: the file holds two roots of one tree type, the handle was
\* opened for the other, and the open stopped at the second root.
C10_Witness ==
    /\ topen = "DataIntegrity"
    /\ Len(tfile.roots) = 2
    /\ tfile.roots[1].hdr # thdr
    /\ tfile.roots[2].hdr # thdr
    /\ tscan.at = tfile.roots[2].at

\* ------------------------------------------------------------------ key/value operations: properties

\* The State a new handle gets from the file as it is now.
Reopened == initialize_state(KFreshState, kfile, VersionedHeader, FALSE, {})

\* C11: after set(k, v) has returned, whatever was done to the tree before,
\* get(k) returns v on the handle that made the set and on a handle opened
\* on the file afterwards.
C11_SetThenGet ==
    kres.op = "set" =>
        /\ kres.status = "Ok"
        /\ kopen => get(kfile, kstate, kres.keys[1], FALSE) = kres.new
        /\ Reopened.status = "Ok"
        /\ get(kfile, Reopened.state, kres.keys[1], FALSE) = kres.new

\* A set that replaced another value of a key, read back on a handle that is
\* open, in a tree that holds other keys too.
C11_Witness ==
    /\ kres.op = "set"
    /\ kopen
    /\ kres.before[kres.keys[1]].value \notin {NoValue, kres.new}
    /\ get(kfile, kstate, kres.keys[1], FALSE) = kres.new
    /\ Cardinality(StoredKeys(kstate.published.root.data)) > 1

\* What get returns for every key, on the open handle and on a new one.
GetAll(st) == [k \in KKeys |-> get(kfile, st, k, FALSE)]
ValuesBefore == [k \in KKeys |-> kres.before[k].value]

\* C12: remove(k) returns the value and the index that were stored for k,
\* or None when k was absent; afterwards get(k) returns None on the same
\* handle and on a handle opened afterwards, and every other key has the
\* value it had.
C12_Remove ==
    kres.op = "remove" =>
        LET k == kres.keys[1]
            after == [ValuesBefore EXCEPT ![k] = NoValue]
        IN /\ kres.status = "Ok"
           /\ kres.value = kres.before[k].value
           /\ kres.index = kres.before[k].sequence_id
           /\ kopen => GetAll(kstate) = after
           /\ Reopened.status = "Ok"
           /\ GetAll(Reopened.state) = after

\* A stored key was removed from a tree that holds another key.
C12_Witness ==
    /\ kres.op = "remove"
    /\ kopen
    /\ kres.value # NoValue
    /\ kres.index # NoSequence
    /\ get(kfile, kstate, kres.keys[1], FALSE) = NoValue
    /\ \E j \in KKeys \ {kres.keys[1]} : get(kfile, kstate, j, FALSE) # NoValue

\* C13: compare_and_swap(k, old, new) succeeds exactly when the value stored
\* for k is old (None standing for an absent key); then k holds new, or is
\* absent when new is None; otherwise it returns Conflict with the stored
\* value and every key has the value it had.
C13_CompareAndSwap ==
    kres.op = "compare_and_swap" =>
        LET k == kres.keys[1]
            after == IF kres.status = "Ok"
                     THEN [ValuesBefore EXCEPT ![k] = kres.new]
                     ELSE ValuesBefore
        IN /\ kres.status \in {"Ok", "Conflict"}
           /\ (kres.status = "Ok") <=> (ValuesBefore[k] = kres.old)
           /\ kres.status = "Conflict" => kres.current = ValuesBefore[k]
           /\ kopen => GetAll(kstate) = after
           /\ Reopened.status = "Ok"
           /\ GetAll(Reopened.state) = after

\* A swap that was refused because the key holds another value than the one
\* expected.
C13_Witness ==
    /\ kres.op = "compare_and_swap"
    /\ kopen
    /\ kres.status = "Conflict"
    /\ kres.old # NoValue
    /\ kres.current \notin {NoValue, kres.old}
    /\ get(kfile, kstate, kres.keys[1], FALSE) = kres.current

\* ------------------------------------------------------------------ reads: properties

StoredNow == StoredKeys(kstate.published.root.data)
KeysWithin(range) == {k \in StoredNow : RangeContains(range, k)}
KeysOfRead == {kres.read[i].key : i \in 1..Len(kres.read)}

\* C14: reduce(range) counts the keys of the tree within the range, for
\* every kind of start and end bound, and uses the reduced index of a node
\* in place of its entries only when all keys of the node are within the
\* range.
C14_ReduceCounts ==
    kres.op = "reduce" =>
        /\ kres.status = "Ok"
        /\ kres.alive_keys = Cardinality(KeysWithin(kres.range))
        /\ \A i \in kres.pushed :
              \A j \in 1..Len(Leaves(kstate.published.root.data)[i]) :
                 RangeContains(kres.range, Leaves(kstate.published.root.data)[i][j])

\* C15: reduce over a range that holds no key of a tree that is not empty
\* returns Some (the rereduce of nothing); None is returned only for an
\* empty tree.
C15_ReduceNoMatch ==
    kres.op = "reduce" =>
        /\ (StoredNow # {} /\ KeysWithin(kres.range) = {}) =>
              (kres.some /\ kres.alive_keys = 0)
        /\ ~kres.some => StoredNow = {}

\* C16: get_multiple of an ascending list of keys returns one pair for each
\* listed key the tree holds, with the value stored, and nothing else.
C16_GetMultiple ==
    kres.op = "get_multiple" =>
        /\ kres.status = "Ok"
        /\ KeysOfRead = {kres.keys[i] : i \in 1..Len(kres.keys)} \cap StoredNow
        /\ Len(kres.read) = Cardinality(KeysOfRead)
        /\ \A i \in 1..Len(kres.read) :
              kres.read[i].value = CurrentValue(kstate.published.root.data,
                                                kres.read[i].key)

\* Some of the listed keys are stored, in both leaves, and some are not.
C16_Witness ==
    /\ kres.op = "get_multiple"
    /\ Len(Leaves(kstate.published.root.data)) > 1
    /\ Len(kres.read) >= 3
    /\ Len(kres.keys) > Len(kres.read)
    /\ \E i \in 1..Len(kres.read) : kres.read[i].key = MaxKey
    /\ \E i, j \in 1..Len(kres.read) : kres.read[i].value # kres.read[j].value

\* C17: get_range(range) returns the pairs of the tree whose key is within
\* the range: all of them, no other, none twice.
C17_GetRange ==
    kres.op = "get_range" =>
        /\ kres.status = "Ok"
        /\ KeysOfRead = KeysWithin(kres.range)
        /\ Len(kres.read) = Cardinality(KeysOfRead)
        /\ \A i \in 1..Len(kres.read) :
              kres.read[i].value = CurrentValue(kstate.published.root.data,
                                                kres.read[i].key)

\* A range with both bounds that cuts through each of the two leaves.
C17_Witness ==
    /\ kres.op = "get_range"
    /\ Len(Leaves(kstate.published.root.data)) > 1
    /\ kres.range.start.kind = "Excluded"
    /\ kres.range.end.kind = "Included"
    /\ Len(kres.read) >= 2
    /\ Cardinality(StoredNow \ KeysOfRead) >= 2
    /\ \A l \in 1..2 :
          /\ \E j \in 1..Len(Leaves(kstate.published.root.data)[l]) :
                Leaves(kstate.published.root.data)[l][j] \in KeysOfRead
          /\ \E j \in 1..Len(Leaves(kstate.published.root.data)[l]) :
                Leaves(kstate.published.root.data)[l][j] \notin KeysOfRead

\* ------------------------------------------------------------------ compaction: properties

\* get(k) for every key after the compaction, on the handle that compacted
\* and on a handle opened on the new file, is what it was before.
CompactionPreservesContents ==
    /\ kres.status = "Ok"
    /\ kopen => GetAll(kstate) = ValuesBefore
    /\ Reopened.status = "Ok"
    /\ GetAll(Reopened.state) = ValuesBefore

AllDone == \A t \in Threads : cthreads[t].pc = "done"

\* C20: while the workers run (set, remove, set, get) on their keys and
\* another thread compacts the tree, no operation fails, remove returns the
\* value the worker set, get returns the value the worker set last, and when
\* all threads are done the count of the tree is the number of keys stored
\* and every key has the value written to it last.
C20_CompactionUnderWriters ==
    /\ \A t \in Threads : ~cthreads[t].failed /\ cthreads[t].pc # "failed"
    /\ \A w \in Workers :
          /\ cthreads[w].pc \in {"set2", "op_set2", "commit_set2", "publish_set2",
                                 "get", "read", "done"}
                => cthreads[w].removed = WorkerValue(w)
          /\ cthreads[w].pc = "done" => cthreads[w].got = WorkerValue(w)
    /\ AllDone =>
          /\ count(cstate) = NumWorkers + 1
          /\ StoredKeys(cstate.published.root.data) = Workers \cup {FooKey}
          /\ cstate.published.file_id = cfile.id
          /\ \A w \in Workers :
                get(cfile, cstate, WorkerKey(w), FALSE) = WorkerValue(w)
          /\ get(cfile, cstate, FooKey, FALSE) = "b"

\* All threads are done, the tree was compacted as often as the bound lets
\* it, and a get had to be tried again because the file had been replaced.
C20_Witness ==
    /\ AllDone
    /\ cruns = MaxCompactRuns
    /\ cfile.id = 1 + MaxCompactRuns
    /\ \E w \in Workers : cthreads[w].retried

\* ------------------------------------------------------------------ replaced files: properties

\* C21: every read and every write made through a handle on a file other
\* than the one the state names fails with TreeCompacted, and leaves the
\* file of the handle, the active state and the published state as they
\* were.
C21_StaleHandleFails ==
    kres.op = "stale" =>
        /\ kres.status = "TreeCompacted"
        /\ ~kres.touched
        /\ kopen => GetAll(kstate) = ValuesBefore

\* A write through a handle on the replaced file of a tree that holds keys
\* was refused.
C21_Witness ==
    /\ kres.op = "stale"
    /\ kres.kind = "modify"
    /\ kres.status = "TreeCompacted"
    /\ kres.replaced.id # kfile.id
    /\ kres.replaced.len > 0
    /\ StoredKeys(kstate.published.root.data) # {}

\* ------------------------------------------------------------------ names: properties

\* A name as the layout of the directory admits it: one byte or more, each of
\* [A-Za-z0-9._-], and not the name of the transaction log.
AdmittedName(name) ==
    /\ Len(name) > 0
    /\ \A i \in 1..Len(name) : NameByteIsValid(name[i])
    /\ name # TransactionsName

\* C22: Roots::tree and Roots::transaction accept a name exactly when it is
\* not empty, holds only bytes of [A-Za-z0-9._-] and is not "_transactions";
\* every other name is refused with InvalidTreeName.
C22_NameValidation ==
    nres.op \in {"tree", "transaction"} =>
        /\ nres.status = "Ok" <=> AdmittedName(nres.name)
        /\ nres.status \in {"Ok", "InvalidTreeName"}

\* C23: delete_tree(name) returns true when a file of that name was there
\* and has been removed, opened through this Roots or not, and false when
\* there was none.
C23_DeleteTreeReturns ==
    nres.op = "delete_tree" =>
        /\ nres.name \notin ndisk
        /\ nres.deleted = nres.existed

\* ------------------------------------------------------------------ writer exclusion: properties

\* The transactions whose ExecutingTransaction exists: returned by
\* Roots::transaction, and neither committed nor dropped yet.
ExecutingTransactions ==
    {id \in TxIds : tx[id].pc \in {"open", "dropping", "committing", "logged"}}

C25_ReadersSeePublished ==
    cthreads[Compactor].asked \in {"count", "current_sequence_id"} =>
        cthreads[Compactor].answer = cthreads[Compactor].visible

\* ------------------------------------------------------------------ commit_trees: properties

\* commit_trees returns Ok to the commit of transaction id in this step.
CommitTreesReturnsOk(id) ==
    /\ tx[id].pc = "committing"
    /\ tx'[id].pc = "logged" \/ (tx'[id].pc = "failed" /\ tx[id].errs = {})

\* commit_trees returns an error to the commit of transaction id in this step.
CommitTreesReturnsErr(id) ==
    /\ tx[id].pc = "committing"
    /\ tx'[id].pc = "failed"
    /\ tx[id].errs # {}

C27_CommitOrder ==
    [][\A t \in TreeNames :
         /\ crashed' = crashed =>
               states'[t].published.root.txn >= states[t].published.root.txn
         /\ \A i, j \in TxIds :
               (i < j /\ t \in tx[i].trees /\ t \in tx'[j].pubd)
                   => (tx'[i].pc = "logged" => t \in tx'[i].pubd)]_vars

\* Two transactions over tree a have both published their state of it, and
\* the published root carries the id of the second.
C27_Witness ==
    /\ "a" \in tx[1].pubd \cap tx[2].pubd
    /\ tx[1].pc = "done"
    /\ states["a"].published.root.txn = 2

\* ------------------------------------------------------------------ TreeCompacted recovery: properties

\* C28: a read through a Tree handle never hands TreeCompacted to its
\* caller: it is tried again on a handle opened anew, and with the
\* compactions of the tree being finitely many every read that has started
\* ends with the value the published root held when it was read.
C28_ReadRecovers ==
    /\ [](\A w \in Workers : ~cthreads[w].failed)
    /\ [][\A w \in Workers :
            /\ (cthreads[w].pc = "read" /\ cthreads'[w].pc = "done") =>
                  /\ cthreads[w].handle = cstate.published.file_id
                  /\ cthreads'[w].got =
                        CurrentValue(cstate.published.root.data, WorkerKey(w))
            /\ (cthreads[w].pc = "get" /\ cthreads'[w].pc = "read") =>
                  cthreads'[w].handle = cfile.id]_vars
    /\ \A w \in Workers :
          (cthreads[w].pc \in {"get", "read"}) ~> (cthreads[w].pc = "done")

\* A read met a compaction, was tried again and returned the value of the
\* key after the compactions had ended.
C28_Witness ==
    \E w \in Workers :
        /\ cthreads[w].pc = "done"
        /\ cthreads[w].retried
        /\ cthreads[w].got = WorkerValue(w)
        /\ cruns = MaxCompactRuns

\* ------------------------------------------------------------------ paged writer: properties

\* "Nbr" and a header kind are the bytes i .. i + 3 of what was written.
MagicAt(written, i) ==
    /\ i >= 1
    /\ i + 3 <= Len(written)
    /\ SubSeq(written, i, i + 2) = Nbr
    /\ written[i + 3] \in HeaderKinds

\* C29: wherever the writer starts, on a page boundary and at 0 too, the
\* "Nbr" and header kind of a root header lie at a multiple of PAGE_SIZE,
\* the next one behind the start; they are the last bytes the new writer has
\* written, so that the root chunk follows them at once; and nowhere else
\* has the writer written "Nbr" and a header kind.
C29_HeaderAligned ==
    pw.pc \in {"new", "chunk"} =>
        /\ \A i \in 1..Len(pw.written) :
              MagicAt(pw.written, i) =>
                  /\ (pw.position + i - 1) % PAGE_SIZE = 0
                  /\ pw.with_header
                  /\ i + 3 = Len(pw.written)
        /\ pw.with_header =>
              /\ MagicAt(pw.written, Len(pw.written) - 3)
              /\ pw.written[Len(pw.written)] = pw.header
              /\ pw.position + Len(pw.written) - 4 = HeaderOffset(pw.position)
              /\ HeaderOffset(pw.position) > pw.position
              /\ HeaderOffset(pw.position) - pw.position <= PAGE_SIZE
        /\ (pw.pc = "chunk" /\ pw.with_header) =>
              pw.chunk_at = HeaderOffset(pw.position) + PAGE_HEADER_LEN

\* A writer with a header started at 0: a whole page of padding, the header
\* at PAGE_SIZE and the chunk behind it.
C29_Witness ==
    /\ pw.pc = "chunk"
    /\ pw.with_header
    /\ pw.position = 0
    /\ Len(pw.written) = PAGE_SIZE + PAGE_HEADER_LEN
    /\ pw.chunk_at = PAGE_SIZE + PAGE_HEADER_LEN

\* ------------------------------------------------------------------ skipped modifications: properties

\* C30: a modification whose CompareSwap callback answers Skip for every key
\* writes no new root header to the file and publishes nothing: the file
\* has no root behind the length it had before the call, and the published
\* state is the one of before.
C30_SkipWritesNothing ==
    (kres.op = "compare_and_swap" /\ kres.status = "Conflict") =>
        /\ \A i \in 1..Len(kfile.roots) : kfile.roots[i].at < kres.len
        /\ kfile.len = kres.len
        /\ kstate.published.position <= kres.len
        /\ kstate.published.root.data.by_id = kres.before

\* ------------------------------------------------------------------ persistence modes: properties

\* C31: a Transactional modification appends its chunks and moves the
\* position of the active state, writes no root header and leaves the
\* published state as it was; a Sync or Flush modification appends a root
\* header and publishes before it returns, and of the two only Sync
\* synchronizes the file.
C31_PersistenceModes ==
    [][/\ \A k \in Keys, v \in Vals \cup {NoValue}, dlen \in DataLens, txn \in FileTxIds :
            FModifyTx(k, v, dlen, txn) =>
                /\ tfile'.roots = tfile.roots
                /\ tfile'.synced = tfile.synced
                /\ tfile'.len >= tfile.len + dlen
                /\ tstate'.active.position = tfile'.len
                /\ tstate'.active.position > tstate.active.position
                /\ tstate'.active.root.data[k] = v
                /\ tstate'.published = tstate.published
       /\ \A k \in Keys, v \in Vals \cup {NoValue}, dlen \in DataLens,
             clen \in RootLens, mode \in {"Sync", "Flush"} :
            FModify(k, v, dlen, clen, should_synchronize(mode)) =>
                /\ Len(tfile'.roots) = Len(tfile.roots) + 1
                /\ tfile'.roots[Len(tfile'.roots)].at >= tfile.len
                /\ tfile'.roots[Len(tfile'.roots)].data[k] = v
                /\ tstate'.published = tstate'.active
                /\ tstate'.published.root.data[k] = v
                /\ tstate'.published.position = tfile'.len
                /\ (mode = "Sync") => tfile'.synced = tfile'.len
                /\ (mode = "Flush") => tfile'.synced = tfile.synced]_vars

\* A Transactional modification has been made on a file that holds a
\* published root: the active state is ahead of the published one.
C31_Witness ==
    /\ topen = "Ok"
    /\ Len(tfile.roots) > 0
    /\ tstate.active.root.dirty
    /\ tstate.active.root.txn # 0
    /\ tstate.active.position = tfile.len
    /\ tstate.active.position > tstate.published.position
    /\ tstate.active.root.data # tstate.published.root.data

\* ---------------------------------------------------------------------------
\* OrderSpec: dynamic_order on its own
\* ---------------------------------------------------------------------------

DEFAULT_MAX_ORDER == 1000

\* The record counts and the configured max_order values tried.
MaxRecords == 130
MaxMaxOrder == 6
\* None is the empty sequence, Some(m) the sequence of m alone.
MaxOrders == {<< >>} \cup {<<m>> : m \in 0..MaxMaxOrder}

\* The largest k with k^3 <= n.
FloorCbrt(n) == CHOOSE k \in 0..n : k * k * k <= n /\ n < (k + 1) * (k + 1) * (k + 1)

\* (number_of_records as f64).cbrt() as usize: the cube root in floating
\* point, truncated. The cbrt of the C library is not correctly rounded: at a
\* perfect cube k^3 it may return a value just below k (glibc gives
\* 14.999999999999998 for 3375.0), which truncates to k - 1.
CbrtAsUsize(n) ==
    LET k == FloorCbrt(n)
    IN IF k >= 1 /\ k * k * k = n THEN {k - 1, k} ELSE {k}

Max(a, b) == IF a >= b THEN a ELSE b

\* max_order.unwrap_or(DEFAULT_MAX_ORDER)
UnwrapMaxOrder(max_order) == IF max_order = << >> THEN DEFAULT_MAX_ORDER ELSE max_order[1]

\* dynamic_order, given what cbrt returned.
dynamic_order(number_of_records, max_order, cbrt) ==
    LET m == UnwrapMaxOrder(max_order)
    IN IF number_of_records > m * m * m
       THEN m
       ELSE Min(m, Max(4, cbrt))

OInit ==
    /\ FIdle /\ RIdle /\ KIdle /\ CIdle /\ NIdle /\ PIdle /\ TIdle
    /\ hs = HNoTree
    /\ \E n \in 0..MaxRecords, max_order \in MaxOrders :
          ord = [NoOrder EXCEPT !.number_of_records = n, !.max_order = max_order]

ODynamicOrder ==
    /\ ord.returned = << >>
    /\ \E cbrt \in CbrtAsUsize(ord.number_of_records) :
          ord' = [ord EXCEPT !.returned =
                     <<dynamic_order(ord.number_of_records, ord.max_order, cbrt)>>]
    /\ UNCHANGED <<hs, restO>>

ONext == ODynamicOrder

OrderSpec == OInit /\ [][ONext]_vars

\* clamp(4, x, max_order)
Clamp4(x, max_order) == IF x < 4 THEN 4 ELSE IF x > max_order THEN max_order ELSE x

\* C34: dynamic_order(n, max_order) is clamp(4, floor(cbrt(n)), max_order): at
\* least 4, at most max_order, max_order when n > max_order^3, and no smaller
\* than what it returns for n - 1.
C34_DynamicOrder ==
    ord.returned # << >> =>
        LET m == UnwrapMaxOrder(ord.max_order)
            n == ord.number_of_records
            r == ord.returned[1]
        IN /\ r = Clamp4(FloorCbrt(n), m)
           /\ r >= 4
           /\ r <= m
           /\ (n > m * m * m => r = m)
           /\ (n >= 1 => \A cbrt \in CbrtAsUsize(n - 1) :
                            dynamic_order(n - 1, ord.max_order, cbrt) <= r)

\* ---------------------------------------------------------------------------
\* HandleSpec: Tree handles on one tree of a Roots, and delete_tree
\* ---------------------------------------------------------------------------

\* The calls of set and of delete_tree made.
HMaxSets == 2
MaxDeletes == 1

\* A faulty tree_states: every call puts a new State under the name.
tree_states_insert(h) ==
    [h EXCEPT !.states = Append(@, KFreshState), !.entry = Len(h.states) + 1]

\* Roots::tree_states for the name of the tree: entry(name).or_insert_with(
\* default_state), cloned. A State is shared by its clones: it is named here
\* by its place in states.
tree_states(h) ==
    IF h.entry # 0 THEN h
    ELSE [h EXCEPT !.states = Append(@, KFreshState), !.entry = Len(h.states) + 1]

\* The transactions the log holds: every transaction made so far was
\* committed.
HLog(h) == 1..(h.txn - 1)

\* file_manager.append(path): the file at the path, made anew, with an id of
\* its own, when there is none.
FileManagerAppend(h) ==
    IF h.exists THEN h
    ELSE [h EXCEPT !.exists = TRUE, !.file = EmptyFile(h.nextid), !.nextid = @ + 1]

\* Roots::tree: the file is created when the path does not exist, and the
\* handle takes the State that tree_states has for the name.
RootsTree(h, handle) ==
    LET h1 == tree_states(FileManagerAppend(h))
    IN [h1 EXCEPT !.handles[handle] = h1.entry,
                  !.res = [HNoRes EXCEPT !.op = "tree", !.handle = handle,
                                         !.status = "Ok"]]

\* Roots::transaction over the tree, TransactionTree::set(key, value) and
\* ExecutingTransaction::commit: the State is the one tree_states has for the
\* name, the file the one at the path.
TransactionSet(h, key, value) ==
    LET h1 == tree_states(h)
        h2 == FileManagerAppend(h1)
        o  == initialize_state(h2.states[h2.entry], h2.file, VersionedHeader, TRUE,
                               HLog(h))
        m  == TreeModifierTransactional(h2.file, o.state, key, KeySet(value), h.txn)
        w  == TreeFileCommit(m.file, m.state, VersionedHeader, KRootLen)
    IN [h2 EXCEPT !.file = w.file,
                  !.states[h2.entry] = publish(w.state),
                  !.txn = @ + 1,
                  !.sets = @ + 1,
                  !.committed[key] = value]

\* Tree::get: a missing file is Ok(None); else the file at the path is read
\* with the State of the handle. A TreeCompacted makes
\* catch_compaction_and_retry open and read again, and since nothing has
\* changed by then the call never returns: "Loops".
TreeGet(h, handle, key) ==
    IF ~h.exists
    THEN [h EXCEPT !.res = [HNoRes EXCEPT !.op = "get", !.handle = handle,
                                          !.key = key, !.status = "Ok"]]
    ELSE LET o == initialize_state(h.states[h.handles[handle]], h.file,
                                   VersionedHeader, TRUE, HLog(h))
             r == get(h.file, o.state, key, FALSE)
         IN [h EXCEPT
               !.states[h.handles[handle]] = o.state,
               !.res = [HNoRes EXCEPT
                          !.op = "get", !.handle = handle, !.key = key,
                          !.value = IF r \in HVals THEN r ELSE NoValue,
                          !.status = IF r \in HVals \cup {NoValue} THEN "Ok"
                                     ELSE IF catch_compaction_and_retry(r) = "continue"
                                     THEN "Loops" ELSE "Err"]]

\* Roots::delete_tree: the file is deleted and the name leaves tree_states.
\* The handles keep the State they hold.
RootsDeleteTree(h) ==
    [h EXCEPT !.exists = FALSE,
              !.file = EmptyFile(NoFile),
              !.entry = 0,
              !.deletes = @ + 1,
              !.before = {x \in Handles : h.handles[x] # 0},
              !.sets = 0,
              !.committed = [k \in HKeys |-> NoValue],
              !.writer = [k \in HKeys |-> 0],
              !.res = [HNoRes EXCEPT !.op = "delete_tree",
                                     !.status = IF h.entry # 0 THEN "true" ELSE "false"]]

HInit ==
    /\ FIdle /\ RIdle /\ KIdle /\ CIdle /\ NIdle /\ PIdle /\ TIdle
    /\ ord = NoOrder
    /\ hs = HNoTree

HTree(handle) ==
    /\ hs.handles[handle] = 0
    /\ hs' = RootsTree(hs, handle)
    /\ UNCHANGED <<ord, restO>>

\* Tree::set through a handle: begin_transaction is Roots::transaction with
\* the name of the handle.
HSet(handle, key, value) ==
    /\ hs.handles[handle] # 0
    /\ hs.sets < HMaxSets
    /\ hs' = [TransactionSet(hs, key, value) EXCEPT
                !.writer[key] = handle,
                !.res = [HNoRes EXCEPT !.op = "set", !.handle = handle, !.key = key,
                                       !.value = value, !.status = "Ok"]]
    /\ UNCHANGED <<ord, restO>>

\* Roots::transaction, set and commit without a Tree handle.
HTransaction(key, value) ==
    /\ hs.sets < HMaxSets
    /\ hs' = [TransactionSet(hs, key, value) EXCEPT
                !.writer[key] = 0,
                !.res = [HNoRes EXCEPT !.op = "transaction", !.key = key,
                                       !.value = value, !.status = "Ok"]]
    /\ UNCHANGED <<ord, restO>>

HGet(handle, key) ==
    /\ hs.handles[handle] # 0
    /\ hs' = TreeGet(hs, handle, key)
    /\ UNCHANGED <<ord, restO>>

HDeleteTree ==
    /\ hs.deletes < MaxDeletes
    /\ hs' = RootsDeleteTree(hs)
    /\ UNCHANGED <<ord, restO>>

HNext ==
    \/ \E handle \in Handles : HTree(handle)
    \/ \E handle \in Handles, key \in HKeys, value \in HVals : HSet(handle, key, value)
    \/ \E key \in HKeys, value \in HVals : HTransaction(key, value)
    \/ \E handle \in Handles, key \in HKeys : HGet(handle, key)
    \/ HDeleteTree

HandleSpec == HInit /\ [][HNext]_vars

\* C35: while no delete_tree is made, every handle that Roots::tree returned
\* holds the State that tree_states has for the name, and a get through any
\* handle returns what was last committed for the key, through whichever
\* handle or transaction.
C35_OneStatePerName ==
    hs.deletes = 0 =>
        /\ \A h \in Handles : hs.handles[h] # 0 => hs.handles[h] = hs.entry
        /\ Len(hs.states) <= 1
        /\ (hs.res.op = "get" =>
              /\ hs.res.status = "Ok"
              /\ hs.res.value = hs.committed[hs.res.key])

\* A get through one handle has returned a value that was committed through
\* the other handle, or through a transaction.
C35_Witness ==
    /\ hs.deletes = 0
    /\ hs.res.op = "get"
    /\ hs.res.value # NoValue
    /\ hs.writer[hs.res.key] # hs.res.handle
    /\ \A h \in Handles : hs.handles[h] # 0

\* C39: after delete_tree, a get through a handle taken before it returns
\* None; once a set(k, v) has been made through that handle, a get(k)
\* through it returns, and returns Some(v).
C39_HandleAcrossDelete ==
    (hs.res.op = "get" /\ hs.res.handle \in hs.before) =>
        /\ hs.res.status = "Ok"
        /\ (hs.sets = 0 => hs.res.value = NoValue)
        /\ (hs.writer[hs.res.key] = hs.res.handle =>
               hs.res.value = hs.committed[hs.res.key])

\* ---------------------------------------------------------------------------
\* The commit thread pool
\* ---------------------------------------------------------------------------

C37_CommitReturns ==
    \A c \in Callers : (callers[c].pc # "idle") ~> (callers[c].pc = "returned")

\* ------------------------------------------------------------------ compaction swap: properties

\* The step of worker w is one that reads or writes the tree file through
\* the handle of the worker.
UsesHandle(w) ==
    /\ cthreads[w].pc \in {"op_set1", "op_remove", "op_set2",
                           "commit_set1", "commit_remove", "commit_set2", "read"}
    /\ cthreads'[w] # cthreads[w]

\* The step of worker w ended in TreeCompacted.
EndsTreeCompacted(w) ==
    /\ cthreads'[w].pc \in {"get", "failed"}
    /\ cstate' = cstate
    /\ cfile' = cfile

\* C33: the file id of the state changes, and the rewritten root is
\* published, only in the finish that follows the replacement of the file;
\* from the second copy pass until that publish nothing else changes the
\* state; and every read or write that goes through is made on a handle whose
\* file is the one the state names, any other ending in TreeCompacted.
C33_SwapConsistency ==
    /\ [](cthreads[Compactor].pc # "finish" =>
            /\ cstate.active.file_id = cfile.id
            /\ cstate.published.file_id = cfile.id)
    /\ [][ (cstate'.active.file_id # cstate.active.file_id
             \/ cstate'.published.file_id # cstate.published.file_id)
           => /\ cthreads[Compactor].pc = "finish"
              /\ cfile = cnew
              /\ cstate'.active.file_id = cfile.id
              /\ cstate'.published = cstate'.active
              /\ cstate'.published.root = cstate.active.root ]_vars
    /\ [][ (cthreads[Compactor].pc \in {"replace", "finish"} /\ cstate' # cstate)
           => /\ cthreads[Compactor].pc = "finish"
              /\ cthreads'[Compactor].pc = "count"
              /\ clock = Compactor ]_vars
    /\ [][ \A w \in Workers : UsesHandle(w) =>
              IF cthreads[w].handle = (IF cthreads[w].pc = "read"
                                       THEN cstate.published.file_id
                                       ELSE cstate.active.file_id)
              THEN cthreads'[w].pc \notin {"get", "failed"}
              ELSE EndsTreeCompacted(w) ]_vars

\* A compaction has replaced the file and finished, the state names the new
\* file, and a read that held a handle on the old file was tried again.
C33_Witness ==
    /\ cthreads[Compactor].pc = "count"
    /\ cruns >= 1
    /\ cfile.id > 1
    /\ cstate.published.file_id = cfile.id
    /\ \E w \in Workers : cthreads[w].retried /\ cthreads[w].pc = "done"
    /\ \E w \in Workers : cthreads[w].pc # "done"

\* ------------------------------------------------------------------ dropped transactions: properties

\* C36: when an ExecutingTransaction is dropped without commit, every tree of
\* it has its active root back at the published one while the names are
\* still held and when they are released, and the transaction that takes a
\* name next finds the tree as it was published.
C36_RollbackBeforeUnlock ==
    /\ [](\A id \in TxIds : tx[id].pc = "dropping" =>
             /\ tx[id].trees \subseteq locks
             /\ \A t \in tx[id].trees :
                   states[t].active.root = states[t].published.root)
    /\ [][\A id \in TxIds : \A t \in tx[id].trees :
            (t \in locks /\ t \notin locks' /\ tx'[id].pc = "rolledback"
               /\ tx[id].pc # "rolledback")
            => /\ tx[id].pc = "dropping"
               /\ states[t].active.root = states[t].published.root
               /\ states'[t] = states[t]]_vars
    /\ [][\A t \in TreeNames :
            (/\ t \notin locks /\ t \in locks'
             /\ owner[t] \in TxIds /\ owner'[t] # owner[t]
             /\ tx[owner[t]].pc = "rolledback")
            => states'[t].active.root = states'[t].published.root]_vars

\* A transaction over two trees that had written to both has been rolled
\* back and still holds both names.
C36_Witness ==
    \E id \in TxIds :
        /\ tx[id].pc = "dropping"
        /\ tx[id].trees = TreeNames
        /\ \A t \in TreeNames : tx[id].last[t] # Unset
        /\ TreeNames \subseteq locks

\* ------------------------------------------------------------------ overlapping compactions: properties

\* C38: a compact() whose handle was opened before another compaction
\* replaced the file reads no chunk of the current root through that handle,
\* and once it has ended, in success or in failure, every key has the value
\* that was committed last.
C38_ConcurrentCompactions ==
    (kopen /\ kres.op = "compact_stale") =>
        /\ kres.read_from \in {NoFile, kres.root_in}
        /\ \A k \in KKeys :
              get(kfile, kstate, k, FALSE) = kres.before[k].value

\* ------------------------------------------------------------------ root discovery arithmetic: properties

\* C40: when a file of L >= 1 bytes is opened, root discovery starts at an
\* offset within 0..L, never steps below 0, examines offsets within 0..L
\* only, and reads at most floor(L / PAGE_SIZE) + 1 page headers.
C40_DiscoveryArithmetic ==
    [][(topen = "Closed" /\ topen' # "Closed" /\ tfile.len >= 1) =>
          /\ InitialBlockStart(tfile.len) \in 0..tfile.len
          /\ topen' # "Panic"
          /\ tscan'.at \in 0..tfile.len
          /\ tscan'.probes <= (tfile.len \div PAGE_SIZE) + 1]_vars

====
